---- MODULE Spec2Model ----
(***************************************************************************)
(* Model of the gitroll-chat profile pipeline: the GET handler of the      *)
(* get-profile-data-by-url route (request validation, upstream fetch,      *)
(* status mapping, preprocessing, schema validation) together with the     *)
(* zod schemas of src/schema/linkedin-profile.ts, interpreted as data.     *)
(*                                                                         *)
(* JSON values are tagged records; an absent property is Undef.  Strings   *)
(* are TLA+ strings and are inspected character by character, so URL       *)
(* parsing, includes() and the empty string are computed, not assumed.     *)
(***************************************************************************)
EXTENDS Integers, Sequences, FiniteSets, TLC

(***************************************************************************)
(* Bounds of the model                                                     *)
(***************************************************************************)
\* how many top-level fields of one upstream payload deviate from the
\* base profile at the same time
MaxDrift == 2
\* how many entries the position / fullPositions / educations arrays of an
\* upstream payload carry at most
MaxEntries == 1

(***************************************************************************)
(* JSON values                                                             *)
(***************************************************************************)
Undef == [t |-> "undefined"]
JNull == [t |-> "null"]
JBool(b) == [t |-> "bool", b |-> b]
JNum(n) == [t |-> "num", n |-> n]
JStr(s) == [t |-> "str", s |-> s]
JArr(a) == [t |-> "arr", a |-> a]
JObj(o) == [t |-> "obj", o |-> o]
\* the object with no own property
EmptyFields == [k \in {} |-> Undef]

\* JavaScript property read v[k] on a non-nullish value: own property of an
\* object, undefined otherwise (no payload key names a prototype member)
Get(v, k) ==
  IF v.t = "obj" /\ k \in DOMAIN v.o THEN v.o[k] ELSE Undef

\* a ?? d
Nullish(v, d) ==
  IF v.t \in {"undefined", "null"} THEN d ELSE v

\* JavaScript truthiness
Truthy(v) ==
  CASE v.t \in {"undefined", "null"} -> FALSE
    [] v.t = "bool" -> v.b
    [] v.t = "num" -> v.n # 0
    [] v.t = "str" -> v.s # ""
    [] OTHER -> TRUE

\* property name of an array index / string position
IndexKey(i) ==
  CASE i = 0 -> "0" [] i = 1 -> "1" [] i = 2 -> "2" [] i = 3 -> "3"
    [] i = 4 -> "4" [] i = 5 -> "5" [] i = 6 -> "6" [] OTHER -> "7"

\* { ...v }: own enumerable properties of v as an object's field map
Spread(v) ==
  CASE v.t = "obj" -> v.o
    [] v.t = "arr" ->
         [k \in {IndexKey(i - 1) : i \in 1..Len(v.a)} |->
            v.a[(CHOOSE i \in 1..Len(v.a) : IndexKey(i - 1) = k)]]
    [] v.t = "str" ->
         [k \in {IndexKey(i - 1) : i \in 1..Len(v.s)} |->
            JStr(SubSeq(v.s, (CHOOSE i \in 1..Len(v.s) : IndexKey(i - 1) = k),
                             (CHOOSE i \in 1..Len(v.s) : IndexKey(i - 1) = k)))]
    [] OTHER -> EmptyFields

\* { ...base, ...over }
Merge(base, over) ==
  [k \in (DOMAIN base) \cup (DOMAIN over) |->
     IF k \in DOMAIN over THEN over[k] ELSE base[k]]

(***************************************************************************)
(* Strings and URL syntax                                                  *)
(***************************************************************************)
CharAt(s, i) == SubSeq(s, i, i)

\* String.prototype.includes
Includes(s, sub) ==
  \E i \in 1..(Len(s) - Len(sub) + 1) : SubSeq(s, i, i + Len(sub) - 1) = sub

Lower == {"a","b","c","d","e","f","g","h","i","j","k","l","m",
          "n","o","p","q","r","s","t","u","v","w","x","y","z"}
Upper == {"A","B","C","D","E","F","G","H","I","J","K","L","M",
          "N","O","P","Q","R","S","T","U","V","W","X","Y","Z"}
Digit == {"0","1","2","3","4","5","6","7","8","9"}
SchemeChar == Lower \cup Upper \cup Digit \cup {"+", "-", "."}
SpecialSchemes == {"http", "https", "ftp", "ws", "wss"}
\* code points a host may not contain (the ones the sample strings can hold)
ForbiddenHostChar == {" ", "<", ">", "^", "|", "[", "]"}

\* the URL parser first strips leading and trailing spaces
RECURSIVE StripLeft(_)
StripLeft(s) ==
  IF Len(s) > 0 /\ CharAt(s, 1) = " " THEN StripLeft(SubSeq(s, 2, Len(s))) ELSE s
RECURSIVE StripRight(_)
StripRight(s) ==
  IF Len(s) > 0 /\ CharAt(s, Len(s)) = " "
  THEN StripRight(SubSeq(s, 1, Len(s) - 1)) ELSE s
Strip(s) == StripRight(StripLeft(s))

\* position of the first ":" of s, 0 when there is none
ColonAt(s) ==
  IF \E i \in 1..Len(s) : CharAt(s, i) = ":"
  THEN CHOOSE i \in 1..Len(s) :
         /\ CharAt(s, i) = ":"
         /\ \A j \in 1..(i - 1) : CharAt(s, j) # ":"
  ELSE 0

RECURSIVE SkipSlashes(_)
SkipSlashes(s) ==
  IF Len(s) > 0 /\ CharAt(s, 1) \in {"/", "\\"}
  THEN SkipSlashes(SubSeq(s, 2, Len(s))) ELSE s

\* the authority of s: everything before the first "/", "?" or "#"
HostEnd(s) ==
  IF \E i \in 1..Len(s) : CharAt(s, i) \in {"/", "?", "#"}
  THEN (CHOOSE i \in 1..Len(s) :
          /\ CharAt(s, i) \in {"/", "?", "#"}
          /\ \A j \in 1..(i - 1) : CharAt(s, j) \notin {"/", "?", "#"}) - 1
  ELSE Len(s)
HostOf(s) == SubSeq(s, 1, HostEnd(s))
HostChars(h) == \A i \in 1..Len(h) : CharAt(h, i) \notin ForbiddenHostChar

\* does new URL(s) succeed (no base URL): a scheme is required; a special
\* scheme needs a non-empty host; a host holds no forbidden code point
UrlParses(raw) ==
  LET s == Strip(raw)
      c == ColonAt(s)
  IN  /\ c > 1
      /\ CharAt(s, 1) \in Lower \cup Upper
      /\ \A i \in 2..(c - 1) : CharAt(s, i) \in SchemeChar
      /\ LET scheme == SubSeq(s, 1, c - 1)
             rest == SubSeq(s, c + 1, Len(s))
         IN  IF scheme \in SpecialSchemes
             THEN LET h == HostOf(SkipSlashes(rest))
                  IN  Len(h) > 0 /\ HostChars(h)
             ELSE IF scheme = "file" THEN TRUE
             ELSE IF Len(rest) >= 2 /\ SubSeq(rest, 1, 2) = "//"
             THEN HostChars(HostOf(SubSeq(rest, 3, Len(rest))))
             ELSE TRUE

\* String(v), the conversion new URL(v) applies to a non-string argument
RECURSIVE ToStr(_)
RECURSIVE JoinFrom(_, _)
JoinFrom(a, i) ==
  IF i > Len(a) THEN ""
  ELSE (IF a[i].t \in {"null", "undefined"} THEN "" ELSE ToStr(a[i]))
       \o (IF i < Len(a) THEN "," ELSE "")
       \o JoinFrom(a, i + 1)
ToStr(v) ==
  CASE v.t = "str" -> v.s
    [] v.t = "num" -> IndexKey(v.n)
    [] v.t = "bool" -> (IF v.b THEN "true" ELSE "false")
    [] v.t = "null" -> "null"
    [] v.t = "undefined" -> "undefined"
    [] v.t = "arr" -> JoinFrom(v.a, 1)
    [] OTHER -> "[object Object]"

\* isValidUrl(x) of the route: does new URL(x) return
isValidUrl(v) == UrlParses(ToStr(v))

(***************************************************************************)
(* Preprocessing stage of the route                                        *)
(***************************************************************************)
\* the callback of data.position.map: the entry with its companyLogo kept
\* when it is truthy and parses as a URL, replaced by "" otherwise.
\* Reading pos.companyLogo of a null entry throws.
SanitizeThrows(pos) == pos.t = "null"

\* the callback with null as the replacement of a rejected logo
SanitizePositionNull(pos) ==
  JObj(Merge(Spread(pos),
     [k \in {"companyLogo"} |->
        IF Truthy(Get(pos, "companyLogo")) /\ isValidUrl(Get(pos, "companyLogo"))
        THEN Get(pos, "companyLogo") ELSE JNull]))

SanitizePosition(pos) ==
  JObj(Merge(Spread(pos),
     [k \in {"companyLogo"} |->
        IF Truthy(Get(pos, "companyLogo")) /\ isValidUrl(Get(pos, "companyLogo"))
        THEN Get(pos, "companyLogo") ELSE JStr("")]))

\* data.position?.map(...) ?? []: calling .map on a value that is neither
\* nullish nor an array throws a TypeError
PositionsThrow(v) ==
  /\ v.t \notin {"undefined", "null"}
  /\ \/ v.t # "arr"
     \/ \E i \in 1..Len(v.a) : SanitizeThrows(v.a[i])
SanitizePositions(v) ==
  IF v.t \in {"undefined", "null"} THEN JArr(<<>>)
  ELSE JArr([i \in 1..Len(v.a) |-> SanitizePosition(v.a[i])])

\* items read from the projects object itself instead of its items field
ProjectsItemsOfTypo(p) == Nullish(p, JNull)

\* projects: data.projects ? {total ?? 0, items ?? null} : {total: 0, items: null}
ProjectsItemsOf(p) == Nullish(Get(p, "items"), JNull)
CompleteProjects(p) ==
  IF Truthy(p)
  THEN JObj([k \in {"total", "items"} |->
               IF k = "total" THEN Nullish(Get(p, "total"), JNum(0))
               ELSE ProjectsItemsOf(p)])
  ELSE JObj([k \in {"total", "items"} |->
               IF k = "total" THEN JNum(0) ELSE JNull])

BoolDefaultKeys == {"isOpenToWork", "isHiring"}
NullDefaultKeys == {"languages", "skills", "givenRecommendation",
                    "receivedRecommendation", "courses", "certifications",
                    "honors", "volunteering"}
CountDefaultKeys == {"givenRecommendationCount", "receivedRecommendationCount"}
PositionKeys == {"position", "fullPositions"}

\* the defaults with the counts defaulted to null like the collections
DefaultOfNullCount(k) ==
  IF k \in BoolDefaultKeys THEN JBool(FALSE) ELSE JNull

\* the default the preprocessing writes for an absent or null field
DefaultOf(k) ==
  IF k \in BoolDefaultKeys THEN JBool(FALSE)
  ELSE IF k \in CountDefaultKeys THEN JNum(0)
  ELSE JNull

\* building processedData throws when data is null (property read of null)
\* or when a positions value cannot be mapped
PreprocessThrows(data) ==
  \/ data.t = "null"
  \/ \E k \in PositionKeys : PositionsThrow(Get(data, k))

\* processedData, for data on which building it does not throw
Preprocess(data) ==
  JObj(Merge(Spread(data),
     [k \in BoolDefaultKeys \cup NullDefaultKeys \cup CountDefaultKeys
            \cup {"projects"} \cup PositionKeys |->
        IF k = "projects" THEN CompleteProjects(Get(data, "projects"))
        ELSE IF k \in PositionKeys THEN SanitizePositions(Get(data, k))
        ELSE Nullish(Get(data, k), DefaultOf(k))]))

(***************************************************************************)
(* Schema descriptors (zod) and their interpretation                       *)
(***************************************************************************)
ZString == [k |-> "string"]
ZNumber == [k |-> "number"]
ZBoolean == [k |-> "boolean"]
ZNull == [k |-> "null"]
ZAny == [k |-> "any"]
ZUrl == [k |-> "url"]
ZLiteral(s) == [k |-> "literal", lit |-> s]
ZObject(shape) == [k |-> "object", shape |-> shape]
ZArray(e) == [k |-> "array", of |-> e]
ZOptional(e) == [k |-> "optional", of |-> e]
ZNullable(e) == [k |-> "nullable", of |-> e]
ZUnion(opts) == [k |-> "union", opts |-> opts]
ZPipe(a, b) == [k |-> "pipe", in |-> a, out |-> b]
ZTransform(fn) == [k |-> "transform", fn |-> fn]
ZRefine(e, pred) == [k |-> "refine", of |-> e, pred |-> pred]
ZEnum(values) == [k |-> "enum", values |-> values]
ZMin(e, n) == [k |-> "min", of |-> e, min |-> n]
ZMax(e, n) == [k |-> "max", of |-> e, max |-> n]
ZDefault(e, d) == [k |-> "default", of |-> e, value |-> d]
\* one entry of an object's shape
F(key, schema) == [key |-> key, schema |-> schema]

\* elements of an issue path
PKey(k) == [key |-> k]
PIdx(i) == [idx |-> i]
Issue(code) == [path |-> <<>>, code |-> code]
Prefix(p, issues) ==
  [i \in 1..Len(issues) |->
     [path |-> <<p>> \o issues[i].path, code |-> issues[i].code]]
Ok(v) == [issues |-> <<>>, value |-> v]
Fail(issues) == [issues |-> issues, value |-> Undef]

\* (val) => val === "" ? null : val
EmptyToNull(v) == IF v = JStr("") THEN JNull ELSE v
\* (val) => { if (!val || val === "") return null;
\*            try { new URL(val); return val } catch { return null } }
UrlOrNull(v) ==
  IF ~Truthy(v) \/ v = JStr("") THEN JNull
  ELSE IF isValidUrl(v) THEN v ELSE JNull
\* (url) => url.includes("linkedin.com/in/")
IncludesLinkedIn(v) == Includes(v.s, "linkedin.com/in/")

ApplyTransform(fn, v) ==
  CASE fn = "emptyToNull" -> EmptyToNull(v)
    [] fn = "urlOrNull" -> UrlOrNull(v)
    [] OTHER -> v
ApplyPredicate(pred, v) ==
  CASE pred = "includesLinkedIn" -> IncludesLinkedIn(v)
    [] OTHER -> TRUE

RECURSIVE Parse(_, _)
RECURSIVE ParseFields(_, _, _)
RECURSIVE ParseItems(_, _, _)
RECURSIVE ParseUnion(_, _, _)

\* z.object stopping at the first key that has an issue
RECURSIVE ParseFieldsFailFast(_, _, _)
ParseFieldsFailFast(shape, input, i) ==
  IF i > Len(shape) THEN [issues |-> <<>>, fields |-> EmptyFields]
  ELSE LET e == shape[i]
           r == Parse(e.schema, Get(input, e.key))
           rest == ParseFieldsFailFast(shape, input, i + 1)
       IN  IF r.issues # <<>>
           THEN [issues |-> Prefix(PKey(e.key), r.issues), fields |-> EmptyFields]
           ELSE [issues |-> rest.issues,
                 fields |-> IF r.value.t = "undefined" THEN rest.fields
                            ELSE Merge(rest.fields, [k \in {e.key} |-> r.value])]

\* z.object: every key of the shape is parsed, the issues of all of them
\* are collected under the key; unknown keys are stripped
ParseFields(shape, input, i) ==
  IF i > Len(shape) THEN [issues |-> <<>>, fields |-> EmptyFields]
  ELSE LET e == shape[i]
           r == Parse(e.schema, Get(input, e.key))
           rest == ParseFields(shape, input, i + 1)
       IN  [issues |-> Prefix(PKey(e.key), r.issues) \o rest.issues,
            fields |-> IF r.value.t = "undefined" THEN rest.fields
                       ELSE Merge(rest.fields, [k \in {e.key} |-> r.value])]

\* z.array: every element is parsed, issues are collected under the index
ParseItems(schema, a, i) ==
  IF i > Len(a) THEN [issues |-> <<>>, items |-> <<>>]
  ELSE LET r == Parse(schema, a[i])
           rest == ParseItems(schema, a, i + 1)
       IN  [issues |-> Prefix(PIdx(i - 1), r.issues) \o rest.issues,
            items |-> <<r.value>> \o rest.items]

\* z.union / .or: the first option that parses without issue wins
ParseUnion(opts, v, i) ==
  IF i > Len(opts) THEN Fail(<<Issue("invalid_union")>>)
  ELSE LET r == Parse(opts[i], v)
       IN  IF r.issues = <<>> THEN r ELSE ParseUnion(opts, v, i + 1)

\* safeParse of one schema on one value: the issue list and, when it is
\* empty, the output value
Parse(schema, v) ==
  CASE schema.k = "string" ->
         IF v.t = "str" THEN Ok(v) ELSE Fail(<<Issue("invalid_type")>>)
    [] schema.k = "number" ->
         IF v.t = "num" THEN Ok(v) ELSE Fail(<<Issue("invalid_type")>>)
    [] schema.k = "boolean" ->
         IF v.t = "bool" THEN Ok(v) ELSE Fail(<<Issue("invalid_type")>>)
    [] schema.k = "null" ->
         IF v.t = "null" THEN Ok(v) ELSE Fail(<<Issue("invalid_type")>>)
    [] schema.k = "any" -> Ok(v)
    [] schema.k = "url" ->
         IF v.t # "str" THEN Fail(<<Issue("invalid_type")>>)
         ELSE IF UrlParses(v.s) THEN Ok(v)
         ELSE Fail(<<Issue("invalid_format")>>)
    [] schema.k = "literal" ->
         IF v = JStr(schema.lit) THEN Ok(v) ELSE Fail(<<Issue("invalid_value")>>)
    [] schema.k = "optional" ->
         IF v.t = "undefined" THEN Ok(v) ELSE Parse(schema.of, v)
    [] schema.k = "nullable" ->
         IF v.t = "null" THEN Ok(v) ELSE Parse(schema.of, v)
    [] schema.k = "union" -> ParseUnion(schema.opts, v, 1)
    [] schema.k = "pipe" ->
         LET l == Parse(schema.in, v)
         IN  IF l.issues # <<>> THEN l ELSE Parse(schema.out, l.value)
    [] schema.k = "transform" -> Ok(ApplyTransform(schema.fn, v))
    [] schema.k = "refine" ->
         LET r == Parse(schema.of, v)
         IN  IF v.t # "str" THEN r
             ELSE IF ApplyPredicate(schema.pred, v) THEN r
             ELSE Fail(r.issues \o <<Issue("custom")>>)
    [] schema.k = "array" ->
         IF v.t # "arr" THEN Fail(<<Issue("invalid_type")>>)
         ELSE LET r == ParseItems(schema.of, v.a, 1)
              IN  IF r.issues = <<>> THEN Ok(JArr(r.items)) ELSE Fail(r.issues)
    [] schema.k = "object" ->
         IF v.t # "obj" THEN Fail(<<Issue("invalid_type")>>)
         ELSE LET r == ParseFields(schema.shape, v, 1)
              IN  IF r.issues = <<>> THEN Ok(JObj(r.fields)) ELSE Fail(r.issues)
    [] schema.k = "enum" ->
         IF v.t = "str" /\ v.s \in schema.values THEN Ok(v)
         ELSE Fail(<<Issue("invalid_value")>>)
    [] schema.k = "min" ->
         LET r == Parse(schema.of, v)
             small == CASE v.t = "str" -> Len(v.s) < schema.min
                        [] v.t = "arr" -> Len(v.a) < schema.min
                        [] v.t = "num" -> v.n < schema.min
                        [] OTHER -> FALSE
         IN  IF r.issues = <<>> /\ small THEN Fail(<<Issue("too_small")>>) ELSE r
    [] schema.k = "max" ->
         LET r == Parse(schema.of, v)
         IN  IF r.issues = <<>> /\ v.t = "num" /\ v.n > schema.max
             THEN Fail(<<Issue("too_big")>>)
             ELSE r
    [] schema.k = "default" ->
         IF v.t = "undefined" THEN Ok(schema.value) ELSE Parse(schema.of, v)

(***************************************************************************)
(* The schemas of src/schema/linkedin-profile.ts                           *)
(***************************************************************************)
LinkedInDateSchema ==
  ZObject(<<F("year", ZNumber), F("month", ZNumber), F("day", ZNumber)>>)

BackgroundImageSchema ==
  ZObject(<<F("width", ZNumber), F("height", ZNumber), F("url", ZUrl)>>)

GeoSchema ==
  ZObject(<<F("country", ZString), F("city", ZString), F("full", ZString),
            F("countryCode", ZOptional(ZString))>>)

LanguageSchema ==
  ZObject(<<F("name", ZString), F("proficiency", ZOptional(ZString))>>)

LogoSchema ==
  ZObject(<<F("url", ZUrl), F("width", ZNumber), F("height", ZNumber)>>)

\* z.string().transform(...).pipe(z.url().nullable())
\*   .or(z.literal("")).or(z.null()).transform(...)
TolerantUrlSchema ==
  ZPipe(ZUnion(<<ZUnion(<<ZPipe(ZPipe(ZString, ZTransform("emptyToNull")),
                                ZNullable(ZUrl)),
                          ZLiteral("")>>),
                 ZNull>>),
        ZTransform("urlOrNull"))

EducationSchema ==
  ZObject(<<F("start", LinkedInDateSchema), F("end", LinkedInDateSchema),
            F("fieldOfStudy", ZString), F("degree", ZString),
            F("grade", ZString), F("schoolName", ZString),
            F("description", ZString), F("activities", ZString),
            F("url", TolerantUrlSchema),
            F("schoolId", ZString),
            F("logo", ZOptional(ZNullable(ZArray(LogoSchema))))>>)

EnUsSchema == ZObject(<<F("en_US", ZOptional(ZString))>>)

PositionSchema ==
  ZObject(<<F("companyId", ZOptional(ZNumber)),
            F("companyName", ZOptional(ZString)),
            F("companyUsername", ZOptional(ZString)),
            F("companyURL", ZOptional(TolerantUrlSchema)),
            F("companyLogo", ZOptional(ZString)),
            F("companyIndustry", ZOptional(ZString)),
            F("companyStaffCountRange", ZOptional(ZString)),
            F("title", ZOptional(ZString)),
            F("multiLocaleTitle", ZOptional(EnUsSchema)),
            F("multiLocaleCompanyName", ZOptional(EnUsSchema)),
            F("location", ZOptional(ZString)),
            F("locationType", ZOptional(ZString)),
            F("description", ZOptional(ZString)),
            F("employmentType", ZOptional(ZString)),
            F("start", ZOptional(LinkedInDateSchema)),
            F("end", ZOptional(LinkedInDateSchema))>>)

SkillSchema ==
  ZObject(<<F("name", ZString), F("passedSkillAssessment", ZBoolean),
            F("endorsementsCount", ZOptional(ZNumber))>>)

CourseSchema == ZObject(<<F("name", ZString), F("number", ZString)>>)

CertificationSchema ==
  ZObject(<<F("name", ZString),
            F("start", ZOptional(LinkedInDateSchema)),
            F("end", ZOptional(LinkedInDateSchema)),
            F("authority", ZOptional(ZString)),
            F("company", ZOptional(ZObject(<<
                F("name", ZString), F("universalName", ZString),
                F("logo", ZOptional(ZString)),
                F("staffCountRange", ZOptional(ZObject(<<>>))),
                F("headquarter", ZOptional(ZObject(<<>>)))>>))),
            F("timePeriod", ZOptional(ZObject(<<
                F("start", ZOptional(LinkedInDateSchema)),
                F("end", ZOptional(LinkedInDateSchema))>>)))>>)

VolunteeringSchema ==
  ZObject(<<F("title", ZString),
            F("start", ZOptional(LinkedInDateSchema)),
            F("end", ZOptional(LinkedInDateSchema)),
            F("companyName", ZOptional(ZString)),
            F("CompanyId", ZOptional(ZString)),
            F("companyUrl", ZOptional(ZUrl)),
            F("companyLogo", ZOptional(ZString))>>)

MultiLocaleStringSchema ==
  ZObject(<<F("en", ZOptional(ZString)), F("en_US", ZOptional(ZString))>>)

ProjectsSchema ==
  ZObject(<<F("total", ZNumber),
            F("items", ZOptional(ZUnion(<<ZNull, ZArray(ZAny)>>)))>>)

SupportedLocaleSchema ==
  ZObject(<<F("country", ZString), F("language", ZString)>>)

\* profilePicture declared without .optional()
ProfilePictureSchemaRequired == ZUrl

ProfilePictureSchema == ZOptional(ZUrl)

\* isOpenToWork / isHiring: z.boolean()
FlagSchemaLoose == ZAny
FlagSchema == ZBoolean

LinkedInProfileSchema ==
  ZObject(<<F("id", ZOptional(ZNumber)),
            F("urn", ZOptional(ZString)),
            F("username", ZOptional(ZString)),
            F("firstName", ZOptional(ZString)),
            F("lastName", ZOptional(ZString)),
            F("isPremium", ZOptional(ZBoolean)),
            F("isCreator", ZOptional(ZBoolean)),
            F("isOpenToWork", FlagSchema),
            F("isHiring", FlagSchema),
            F("isPrime", ZOptional(ZBoolean)),
            F("profilePicture", ProfilePictureSchema),
            F("backgroundImage", ZOptional(ZArray(BackgroundImageSchema))),
            F("summary", ZOptional(ZString)),
            F("headline", ZOptional(ZString)),
            F("geo", ZOptional(GeoSchema)),
            F("languages", ZOptional(ZUnion(<<ZNull, ZArray(ZString),
                                              ZArray(LanguageSchema)>>))),
            F("educations", ZOptional(ZArray(EducationSchema))),
            F("position", ZOptional(ZArray(PositionSchema))),
            F("fullPositions", ZOptional(ZArray(PositionSchema))),
            F("skills", ZOptional(ZNullable(ZArray(SkillSchema)))),
            F("givenRecommendation", ZOptional(ZNull)),
            F("givenRecommendationCount", ZNumber),
            F("receivedRecommendation", ZOptional(ZNull)),
            F("receivedRecommendationCount", ZNumber),
            F("courses", ZOptional(ZNullable(ZArray(CourseSchema)))),
            F("certifications", ZOptional(ZNullable(ZArray(CertificationSchema)))),
            F("honors", ZOptional(ZUnion(<<ZNull, ZArray(ZAny)>>))),
            F("projects", ProjectsSchema),
            F("volunteering", ZOptional(ZNullable(ZArray(VolunteeringSchema)))),
            F("supportedLocales", ZOptional(ZArray(SupportedLocaleSchema))),
            F("multiLocaleFirstName", ZOptional(MultiLocaleStringSchema)),
            F("multiLocaleLastName", ZOptional(MultiLocaleStringSchema)),
            F("multiLocaleHeadline", ZOptional(MultiLocaleStringSchema))>>)

LinkedInProfileRequestSchema ==
  ZObject(<<F("url", ZRefine(ZUrl, "includesLinkedIn"))>>)

(***************************************************************************)
(* Upstream payloads the model draws from                                  *)
(***************************************************************************)
\* the profile of "should validate minimal required profile data"
MinimalProfile ==
  JObj([firstName |-> JStr("John"), lastName |-> JStr("Doe"),
        headline |-> JStr("Software Engineer"),
        profilePicture |-> JStr("https://example.com/photo.jpg"),
        isOpenToWork |-> JBool(FALSE), isHiring |-> JBool(FALSE),
        givenRecommendationCount |-> JNum(0),
        receivedRecommendationCount |-> JNum(0),
        projects |-> JObj([total |-> JNum(0), items |-> JNull])])

\* the profile of "should fail when required fields are missing"
IncompleteProfile ==
  JObj([firstName |-> JStr("John"),
        headline |-> JStr("Software Engineer"),
        profilePicture |-> JStr("https://example.com/photo.jpg")])

\* strings tried in URL-typed fields
UrlSamples ==
  {"", "not-a-url", "https://techcorp.com", " https://a.co/x ", "http://",
   "mailto:hr", "linkedin.com/in/a", "ht tp://a.co"}

ValidEducation ==
  [start |-> JObj([year |-> JNum(1), month |-> JNum(2), day |-> JNum(3)]),
   end |-> JObj([year |-> JNum(4), month |-> JNum(6), day |-> JNum(31)]),
   fieldOfStudy |-> JStr("CS"), degree |-> JStr("BSc"), grade |-> JStr("A"),
   schoolName |-> JStr("MIT"), description |-> JStr(""),
   activities |-> JStr(""), url |-> JStr("https://mit.edu"),
   schoolId |-> JStr("42")]

\* entries tried inside position / fullPositions
PositionEntries ==
  {JObj(EmptyFields), JNull, JStr("ab"), JNum(5),
   JObj([title |-> JStr("CEO"), companyName |-> JStr("Acme")]),
   JObj([title |-> JNum(5)]),
   JObj([companyURL |-> JNull]),
   JObj([companyLogo |-> JNull]),
   JObj([companyLogo |-> JNum(5)]),
   JObj([companyLogo |-> JArr(<<JStr("https://a.co/l.png")>>)])}
  \cup {JObj([companyURL |-> JStr(u)]) : u \in UrlSamples}
  \cup {JObj([companyLogo |-> JStr(u)]) : u \in UrlSamples}

\* entries tried inside educations
EducationEntries ==
  {JObj(ValidEducation), JObj(EmptyFields),
   JObj([ValidEducation EXCEPT !.url = JNull]),
   JObj([k \in DOMAIN ValidEducation \ {"url"} |-> ValidEducation[k]])}
  \cup {JObj([ValidEducation EXCEPT !.url = JStr(u)]) : u \in UrlSamples}

\* arrays of at most n entries drawn from E
RECURSIVE ArraysUpTo(_, _)
ArraysUpTo(E, n) ==
  IF n = 0 THEN {<<>>}
  ELSE ArraysUpTo(E, n - 1)
       \cup {Append(a, e) : a \in {b \in ArraysUpTo(E, n - 1) : Len(b) = n - 1},
                            e \in E}

Mod(key, value) == [key |-> key, value |-> value]

\* deviations of one scalar or nullable field from the base profile;
\* the value Undef removes the field
ScalarMods ==
  {Mod("isOpenToWork", v) : v \in {Undef, JNull, JBool(TRUE), JStr("true")}}
  \cup {Mod("isHiring", v) : v \in {Undef, JNull, JStr("false")}}
  \cup {Mod("givenRecommendationCount", v) : v \in {Undef, JNum(3), JStr("5")}}
  \cup {Mod("receivedRecommendationCount", v) : v \in {Undef, JStr("5")}}
  \cup {Mod("profilePicture", v) :
     v \in {Undef, JStr(""), JStr("not-a-url"), JStr(" https://a.co/x ")}}
  \cup {Mod("projects", v) :
     v \in {Undef, JStr("x"), JNum(0), JObj(EmptyFields),
            JObj([total |-> JNum(3)]),
            JObj([items |-> JArr(<<JNum(1)>>)]),
            JObj([total |-> JStr("3"), items |-> JNull]),
            JObj([total |-> JNum(2), items |-> JArr(<<>>), page |-> JNum(1)])}}
  \cup {Mod("languages", v) :
     v \in {JNull, JStr("en"), JArr(<<JStr("English")>>),
            JArr(<<JObj([name |-> JStr("English")])>>)}}
  \cup {Mod("skills", v) :
     v \in {JNull, JArr(<<JObj([name |-> JStr("TLA")])>>)}}
  \cup {Mod("honors", v) : v \in {JNull, JArr(<<JNum(1)>>)}}

\* deviations of one of the array-valued fields
CollectionMods ==
  {Mod(k, v) : k \in PositionKeys,
               v \in {JNull, JStr("x"), JNum(5), JObj(EmptyFields)}}
  \cup {Mod(k, JArr(a)) : k \in PositionKeys,
                          a \in ArraysUpTo(PositionEntries, MaxEntries)}
  \cup {Mod("educations", JArr(a)) :
          a \in ArraysUpTo(EducationEntries, MaxEntries)}

KeysOf(S) == {m.key : m \in S}

\* sets of at most n scalar deviations, on different fields
RECURSIVE ModSets(_)
ModSets(n) ==
  IF n = 0 THEN {{}}
  ELSE LET prev == ModSets(n - 1)
       IN  prev \cup
           {T \in {S \cup {m} : S \in prev, m \in ScalarMods} :
              Cardinality(KeysOf(T)) = Cardinality(T)}

\* the base profile with the deviations of S applied
ApplyMods(base, S) ==
  JObj([k \in ((DOMAIN base.o) \cup {m.key : m \in {x \in S : x.value # Undef}})
              \ {m.key : m \in {x \in S : x.value = Undef}} |->
          IF k \in KeysOf(S) THEN (CHOOSE m \in S : m.key = k).value
          ELSE base.o[k]])

\* JSON values an upstream 2xx body can decode to: non-objects, the minimal
\* profile with up to MaxDrift scalar deviations, the incomplete profile
\* with up to one, and either profile with one array-valued field set
Payloads ==
  {JNull, JNum(5), JStr("ab"), JBool(TRUE), JArr(<<>>), JArr(<<JNum(1)>>)}
  \cup {ApplyMods(MinimalProfile, S) : S \in ModSets(MaxDrift)}
  \cup {ApplyMods(IncompleteProfile, S) : S \in ModSets(1)}
  \cup {ApplyMods(base, {m}) : base \in {MinimalProfile, IncompleteProfile},
                               m \in CollectionMods}

(***************************************************************************)
(* The GET handler of the profile route                                    *)
(***************************************************************************)
VARIABLES
  pc,             \* "idle", "fetching" (awaiting fetch), "fetched", "done"
  rapidApiKey,    \* is process.env.RAPIDAPI_KEY set
  reqUrl,         \* searchParams.get("url"): JNull when the parameter is missing
  upstream,       \* what the awaited fetch settled with
  fetchCalls,     \* upstream calls made for the current request
  processedData,  \* the handler's processedData, Undef until it is built
  ranValidate,    \* LinkedInProfileSchema.safeParse ran for the current request
  response        \* the NextResponse returned for the current request

routeVars == <<pc, rapidApiKey, reqUrl, upstream, fetchCalls, processedData,
               ranValidate, response>>

\* state of one mounted useCSVUpload hook and of what it called
VARIABLES
  contacts,       \* useState<Contact[]>: the contact list
  isUploading,    \* useState(false)
  inFlight,       \* uploadCSV calls awaiting file.text()
  toasts,         \* the toast calls made by the latest step of the hook
  parserInput,    \* the text the latest step handed to Papa.parse, or NoText
  last            \* what the latest step of the hook was and how it ended

csvVars == <<contacts, isUploading, inFlight, toasts, parserInput, last>>

\* state of one component using useAuthGuard
VARIABLES
  mounted,                   \* the component has rendered and run its effect
  user,                      \* useAuthContext().user: JNull or a user object
  loading,                   \* useAuthContext().loading
  redirectTo,                \* first argument of the hook
  requireEmailVerification,  \* second argument of the hook
  pushed,                    \* router.push calls of the latest effect run
  pushCount                  \* router.push calls since the first render

guardVars == <<mounted, user, loading, redirectTo, requireEmailVerification,
               pushed, pushCount>>

\* state of the chat page component
VARIABLES
  leftSidebarOpen,   \* useState(true)
  rightSidebarOpen,  \* useState(false)
  screen,            \* what the latest render returned, "none" before it
  renders            \* renders of the page so far

pageVars == <<leftSidebarOpen, rightSidebarOpen, screen, renders>>

\* one invocation of a POST handler of the AI routes and its environment
VARIABLES
  azureEnv,       \* which of AZURE_OPENAI_API_KEY, AZURE_OPENAI_ENDPOINT are set
  postPc,         \* "idle", "awaiting" (the AI call), "done"
  endpoint,       \* the route whose POST runs, "none" before a request
  postBody,       \* what request.json() resolved with
  postData,       \* validation.data, Undef until validation succeeded
  azureInits,     \* getAzureAI calls made for the current request
  aiCalls,        \* streamText / generateObject calls for the current request
  aiResult,       \* what the awaited AI call settled with
  postResponse    \* the response returned for the current request

aiVars == <<azureEnv, postPc, endpoint, postBody, postData, azureInits, aiCalls,
            aiResult, postResponse>>

\* state of one mounted useChatAI hook
VARIABLES
  messages,       \* useState<Message[]>([])
  input,          \* useState("")
  isLoading,      \* useState(false)
  error,          \* useState<string | null>(null): JNull or a message
  running,        \* the handleSubmit calls past their guard, not yet settled
  requests,       \* fetch calls made since the hook was mounted
  clock,          \* the latest value Date.now() returned
  chatStep        \* what the latest step of the hook was and how it ended

chatVars == <<messages, input, isLoading, error, running, requests, clock,
              chatStep>>

\* state of one component using useLinkedInProfiles
VARIABLES
  swrPc,          \* "unmounted", "idle" (null key), "fetching", "settled"
  linkedinUrls,   \* the argument of the hook
  combinedKey,    \* the SWR key, JNull when there is nothing to fetch
  fetcherUrls,    \* the urls multiProfileFetcher recovered from its key
  swrData,        \* SWR's data: Undef or the array of profiles
  swrError        \* SWR's error: Undef or the message of the Error thrown

swrVars == <<swrPc, linkedinUrls, combinedKey, fetcherUrls, swrData, swrError>>

appVars == <<pageVars, aiVars, chatVars, swrVars>>

vars == <<routeVars, csvVars, guardVars, appVars>>

NoText == <<>>
NoCall ==
  [op |-> "none", text |-> NoText, rows |-> 0, threw |-> FALSE, held |-> FALSE]

\* the hook as useState leaves it on the first render
InitCSVHook ==
  /\ contacts = <<>>
  /\ isUploading = FALSE
  /\ inFlight = 0
  /\ toasts = <<>>
  /\ parserInput = NoText
  /\ last = NoCall

\* the guarded component before its first render
InitGuard ==
  /\ mounted = FALSE
  /\ user = JNull
  /\ loading = TRUE
  /\ redirectTo = "/signin"
  /\ requireEmailVerification = FALSE
  /\ pushed = <<>>
  /\ pushCount = 0

\* the chat page before its first render
InitPage ==
  /\ leftSidebarOpen = TRUE
  /\ rightSidebarOpen = FALSE
  /\ screen = "none"
  /\ renders = 0

NoPostResponse == [status |-> 0, kind |-> "none", error |-> "", details |-> <<>>,
                   data |-> Undef]
NoAIResult == [kind |-> "none"]
\* process.env as far as getAzureAI reads it
AzureEnvs == [apiKey : BOOLEAN, endpoint : BOOLEAN]
Configured == [apiKey |-> TRUE, endpoint |-> TRUE]

\* the AI routes before a request
InitPOST ==
  /\ azureEnv \in AzureEnvs
  /\ postPc = "idle"
  /\ endpoint = "none"
  /\ postBody = Undef
  /\ postData = Undef
  /\ azureInits = 0
  /\ aiCalls = 0
  /\ aiResult = NoAIResult
  /\ postResponse = NoPostResponse

NoStep == [op |-> "none", before |-> <<>>]

\* useChatAI as useState leaves it on the first render
InitChat ==
  /\ messages = <<>>
  /\ input = ""
  /\ isLoading = FALSE
  /\ error = JNull
  /\ running = <<>>
  /\ requests = 0
  /\ clock = 0
  /\ chatStep = NoStep

\* the component using useLinkedInProfiles before its first render
InitSWR ==
  /\ swrPc = "unmounted"
  /\ linkedinUrls = <<>>
  /\ combinedKey = JNull
  /\ fetcherUrls = <<>>
  /\ swrData = Undef
  /\ swrError = Undef

\* the page, the AI routes and the two hooks at rest
InitApp == InitPage /\ InitPOST /\ azureEnv = Configured /\ InitChat /\ InitSWR

NoResponse == [status |-> 0, error |-> "", details |-> <<>>,
               rawData |-> Undef, data |-> Undef]
NoUpstream == [kind |-> "none"]

\* NextResponse.json({error, details?, rawData?}, {status})
ErrorResponse(status, message, details, rawData) ==
  [status |-> status, error |-> message, details |-> details,
   rawData |-> rawData, data |-> Undef]
\* NextResponse.json(profile): status 200
ProfileResponse(profile) ==
  [status |-> 200, error |-> "", details |-> <<>>,
   rawData |-> Undef, data |-> profile]
\* the catch block of the handler
InternalError == ErrorResponse(500, "Internal server error", <<>>, Undef)

\* values of the url query parameter
RequestUrls ==
  {JNull, JStr(""), JStr("not a url"), JStr("linkedin.com/in/bob"),
   JStr("https://example.com/profile"),
   JStr("https://www.linkedin.com/in/testuser/"),
   JStr("http://x.co/?next=linkedin.com/in/bob"),
   JStr("https://www.linkedin.com/company/acme")}

\* HTTP statuses the upstream answers with
Statuses == {200, 201, 400, 401, 403, 404, 429, 500, 503}
\* response.ok
IsOk(status) == status >= 200 /\ status <= 299
\* a body response.json() rejects
Unparsable == [t |-> "unparsable"]

\* LinkedInProfileRequestSchema.safeParse({ url })
RequestValidation(url) ==
  Parse(LinkedInProfileRequestSchema, JObj([k \in {"url"} |-> url]))

\* the status mapping with the 429 branch left out
UpstreamErrorNo429(status) ==
  IF status = 401 THEN ErrorResponse(401, "API authentication failed", <<>>, Undef)
  ELSE IF status = 404 THEN ErrorResponse(404, "LinkedIn profile not found", <<>>, Undef)
  ELSE ErrorResponse(status, "Failed to fetch profile data", <<>>, Undef)

\* the branch taken when !response.ok
UpstreamError(status) ==
  IF status = 401 THEN ErrorResponse(401, "API authentication failed", <<>>, Undef)
  ELSE IF status = 429 THEN ErrorResponse(429, "API rate limit exceeded", <<>>, Undef)
  ELSE IF status = 404 THEN ErrorResponse(404, "LinkedIn profile not found", <<>>, Undef)
  ELSE ErrorResponse(status, "Failed to fetch profile data", <<>>, Undef)

\* LinkedInProfileSchema.safeParse(processedData)
ValidateProfile(processed) == Parse(LinkedInProfileSchema, processed)

\* the response built from a validation result
ValidationResponse(v, processed) ==
  IF v.issues # <<>>
  THEN ErrorResponse(502, "Validation failed", v.issues, processed)
  ELSE ProfileResponse(v.value)

\* the handler from the settled fetch to its return: the processedData it
\* built, whether it validated, and what it answered
AfterFetch(up) ==
  IF up.kind = "error"
  THEN [pre |-> Undef, val |-> FALSE, resp |-> InternalError]
  ELSE IF ~IsOk(up.status)
  THEN [pre |-> Undef, val |-> FALSE, resp |-> UpstreamError(up.status)]
  ELSE IF up.body = Unparsable
  THEN [pre |-> Undef, val |-> FALSE, resp |-> InternalError]
  ELSE IF PreprocessThrows(up.body)
  THEN [pre |-> Undef, val |-> FALSE, resp |-> InternalError]
  ELSE LET processed == Preprocess(up.body)
       IN  [pre |-> processed, val |-> TRUE,
            resp |-> ValidationResponse(ValidateProfile(processed), processed)]

\* the handler before a request
InitHandler ==
  /\ pc = "idle"
  /\ rapidApiKey \in BOOLEAN
  /\ reqUrl = JNull
  /\ upstream = NoUpstream
  /\ fetchCalls = 0
  /\ processedData = Undef
  /\ ranValidate = FALSE
  /\ response = NoResponse

InitRoute == InitHandler /\ InitCSVHook /\ InitGuard /\ InitApp

\* GET with the configuration check placed before the request validation
GETStartEnvFirst(url) ==
  /\ pc = "idle"
  /\ reqUrl' = url
  /\ IF ~rapidApiKey
     THEN /\ response' = ErrorResponse(500, "API configuration error", <<>>, Undef)
          /\ pc' = "done"
          /\ UNCHANGED fetchCalls
     ELSE IF RequestValidation(url).issues # <<>>
     THEN /\ response' = ErrorResponse(400, "Invalid request parameters",
                                       RequestValidation(url).issues, Undef)
          /\ pc' = "done"
          /\ UNCHANGED fetchCalls
     ELSE /\ fetchCalls' = fetchCalls + 1
          /\ pc' = "fetching"
          /\ UNCHANGED response
  /\ UNCHANGED <<rapidApiKey, upstream, processedData, ranValidate,
                 csvVars, guardVars, appVars>>

\* GET up to its first await: request validation, configuration check,
\* then the upstream call
GETStart(url) ==
  /\ pc = "idle"
  /\ reqUrl' = url
  /\ IF RequestValidation(url).issues # <<>>
     THEN /\ response' = ErrorResponse(400, "Invalid request parameters",
                                       RequestValidation(url).issues, Undef)
          /\ pc' = "done"
          /\ UNCHANGED fetchCalls
     ELSE IF ~rapidApiKey
     THEN /\ response' = ErrorResponse(500, "API configuration error", <<>>, Undef)
          /\ pc' = "done"
          /\ UNCHANGED fetchCalls
     ELSE /\ fetchCalls' = fetchCalls + 1
          /\ pc' = "fetching"
          /\ UNCHANGED response
  /\ UNCHANGED <<rapidApiKey, upstream, processedData, ranValidate,
                 csvVars, guardVars, appVars>>

\* the upstream answers the fetch
UpstreamResponds(status, body) ==
  /\ pc = "fetching"
  /\ upstream' = [kind |-> "response", status |-> status, body |-> body]
  /\ pc' = "fetched"
  /\ UNCHANGED <<rapidApiKey, reqUrl, fetchCalls, processedData, ranValidate, response,
                 csvVars, guardVars, appVars>>

\* the fetch rejects (network failure)
UpstreamFails ==
  /\ pc = "fetching"
  /\ upstream' = [kind |-> "error"]
  /\ pc' = "fetched"
  /\ UNCHANGED <<rapidApiKey, reqUrl, fetchCalls, processedData, ranValidate, response,
                 csvVars, guardVars, appVars>>

\* GET from the settled fetch to its return
GETFinish ==
  /\ pc = "fetched"
  /\ LET r == AfterFetch(upstream)
     IN  /\ processedData' = r.pre
         /\ ranValidate' = r.val
         /\ response' = r.resp
  /\ pc' = "done"
  /\ UNCHANGED <<rapidApiKey, reqUrl, upstream, fetchCalls,
                 csvVars, guardVars, appVars>>

\* the next request arrives at a fresh invocation of the handler
NextRequest ==
  /\ pc = "done"
  /\ pc' = "idle"
  /\ reqUrl' = JNull
  /\ upstream' = NoUpstream
  /\ fetchCalls' = 0
  /\ processedData' = Undef
  /\ ranValidate' = FALSE
  /\ response' = NoResponse
  /\ UNCHANGED <<rapidApiKey, csvVars, guardVars, appVars>>

\* bodies a non-2xx answer carries (the handler never reads them)
ErrorBodies == {MinimalProfile, JNull, Unparsable}

\* the handler reads response.ok only, so the 2xx statuses other than 200
\* carry the two base profiles with at most one scalar deviation
NextRoute ==
  \/ \E url \in RequestUrls : GETStart(url)
  \/ \E status \in Statuses :
       \E body \in (IF status = 200 THEN Payloads \cup {Unparsable}
                    ELSE IF IsOk(status)
                    THEN {ApplyMods(base, S) :
                            base \in {MinimalProfile, IncompleteProfile},
                            S \in ModSets(1)} \cup {JNull, Unparsable}
                    ELSE ErrorBodies) :
         UpstreamResponds(status, body)
  \/ UpstreamFails
  \/ GETFinish
  \/ NextRequest

SpecRoute == InitRoute /\ [][NextRoute]_vars

(***************************************************************************)
(* Properties of the profile route                                         *)
(***************************************************************************)
\* the handler has returned for a 2xx upstream answer carrying JSON
Done2xx ==
  /\ pc = "done"
  /\ upstream.kind = "response"
  /\ IsOk(upstream.status)
  /\ upstream.body # Unparsable

\* the url parameter is missing, is not a URL, or lacks "linkedin.com/in/"
BadRequestUrl(u) ==
  \/ u.t # "str"
  \/ ~UrlParses(u.s)
  \/ ~Includes(u.s, "linkedin.com/in/")

\* C1: a request whose url parameter is missing, is not a URL or does not
\* contain "linkedin.com/in/" is answered 400 "Invalid request parameters"
\* without any upstream call, whether or not RAPIDAPI_KEY is set.
C1_BadUrlRejected ==
  (pc # "idle" /\ BadRequestUrl(reqUrl)) =>
     /\ pc = "done"
     /\ response.status = 400
     /\ response.error = "Invalid request parameters"
     /\ response.details # <<>>
     /\ fetchCalls = 0
     /\ upstream = NoUpstream

\* a non-LinkedIn URL was rejected with 400 while RAPIDAPI_KEY is not set
C1_Witness ==
  /\ pc = "done"
  /\ ~rapidApiKey
  /\ reqUrl = JStr("https://example.com/profile")
  /\ response.status = 400
  /\ fetchCalls = 0

\* C2: a non-2xx upstream answer yields exactly the fixed error category of
\* its status (401, 429, 404, otherwise "Failed to fetch profile data" with
\* the upstream status), and neither preprocessing nor validation runs.
C2_UpstreamErrorMapped ==
  (pc = "done" /\ upstream.kind = "response" /\ ~IsOk(upstream.status)) =>
     /\ response.status = upstream.status
     /\ response.error =
          (CASE upstream.status = 401 -> "API authentication failed"
             [] upstream.status = 429 -> "API rate limit exceeded"
             [] upstream.status = 404 -> "LinkedIn profile not found"
             [] OTHER -> "Failed to fetch profile data")
     /\ response.details = <<>>
     /\ response.data = Undef
     /\ response.rawData = Undef
     /\ processedData = Undef
     /\ ~ranValidate

\* a 429 answer whose body is a valid profile was mapped to the rate-limit
\* error without being processed
C2_Witness ==
  /\ pc = "done"
  /\ upstream.kind = "response"
  /\ upstream.status = 429
  /\ upstream.body = MinimalProfile
  /\ response.error = "API rate limit exceeded"
  /\ processedData = Undef

\* C3: for every 2xx upstream answer the outcome is either the typed
\* profile (status 200, no issues) or status 502 "Validation failed" with a
\* non-empty issue list and the preprocessed object as rawData.
C3_DiscriminatedResult ==
  Done2xx =>
     \/ /\ response.status = 200
        /\ response.data # Undef
        /\ response.details = <<>>
        /\ response.error = ""
     \/ /\ response.status = 502
        /\ response.error = "Validation failed"
        /\ response.details # <<>>
        /\ response.data = Undef
        /\ processedData # Undef
        /\ response.rawData = processedData

\* a payload that is structurally invalid: not an object at top level, or
\* with position / fullPositions / projects of the wrong type
StructurallyInvalid(d) ==
  \/ d.t # "obj"
  \/ \E k \in PositionKeys :
       \/ Get(d, k).t \notin {"undefined", "arr"}
       \/ /\ Get(d, k).t = "arr"
          /\ \E i \in 1..Len(Get(d, k).a) : Get(d, k).a[i].t # "obj"
  \/ Get(d, "projects").t \notin {"undefined", "obj"}

\* C4: a structurally invalid upstream payload never surfaces as an
\* exception or a generic 500: the caller receives the validation-failure
\* result carrying the issue list.
C4_NoThrowOnMalformed ==
  (Done2xx /\ StructurallyInvalid(upstream.body)) =>
     /\ response.status = 502
     /\ response.error = "Validation failed"
     /\ response.details # <<>>

\* the cleaned value the tolerant URL policy prescribes for a string
TolerantClean(u) ==
  IF u = "" \/ ~UrlParses(u) THEN JNull ELSE JStr(u)

\* the minimal profile with one position entry whose companyURL is u
PositionUrlBody(k, u) ==
  ApplyMods(MinimalProfile, {Mod(k, JArr(<<JObj([companyURL |-> JStr(u)])>>))})
\* the minimal profile with one valid education whose url is u
EducationUrlBody(u) ==
  ApplyMods(MinimalProfile,
    {Mod("educations", JArr(<<JObj([ValidEducation EXCEPT !.url = JStr(u)])>>))})

\* C5: for any string in a position's companyURL or an education's url of
\* an otherwise valid profile, validation succeeds and the cleaned value is
\* null when the string is empty or not a valid URL, the string otherwise.
C5_UrlDegradation ==
  Done2xx =>
    \A u \in UrlSamples :
      /\ \A k \in PositionKeys :
           upstream.body = PositionUrlBody(k, u) =>
             /\ response.status = 200
             /\ Get(Get(response.data, k).a[1], "companyURL") = TolerantClean(u)
      /\ upstream.body = EducationUrlBody(u) =>
           /\ response.status = 200
           /\ Get(Get(response.data, "educations").a[1], "url") = TolerantClean(u)

\* C6: an empty or syntactically invalid profilePicture of an otherwise
\* valid profile is turned into null and the profile still validates.
C6_ProfilePictureTolerant ==
  Done2xx =>
    \A u \in UrlSamples :
      upstream.body = ApplyMods(MinimalProfile, {Mod("profilePicture", JStr(u))}) =>
        /\ response.status = 200
        /\ Get(response.data, "profilePicture") = TolerantClean(u)

\* the minimal profile with flag f set to value v
FlagBody(f, v) == ApplyMods(MinimalProfile, {Mod(f, v)})
\* the single issue zod reports for a wrong type at top-level field f
OneIssueAt(f) == <<[path |-> <<PKey(f)>>, code |-> "invalid_type"]>>

\* C7 as stated: any non-boolean value in isOpenToWork or isHiring of an
\* otherwise valid profile makes validation fail with exactly one issue,
\* whose path is that field, also through the route.
C7_StrictFlagsOriginal ==
  Done2xx =>
    \A f \in BoolDefaultKeys :
      \A v \in {JNull, JStr("true"), JStr("false"), JNum(1)} :
        upstream.body = FlagBody(f, v) =>
          /\ Parse(LinkedInProfileSchema, upstream.body).issues = OneIssueAt(f)
          /\ response.status = 502
          /\ response.details = OneIssueAt(f)

\* C7 amended: the schema applied directly rejects every non-boolean value
\* (null included) with exactly one issue at the field; through the route
\* the same holds for every non-boolean value except null, which the
\* preprocessing replaces by false like an absent field.
C7_StrictFlags ==
  Done2xx =>
    \A f \in BoolDefaultKeys :
      \A v \in {JNull, JStr("true"), JStr("false"), JNum(1)} :
        upstream.body = FlagBody(f, v) =>
          /\ Parse(LinkedInProfileSchema, upstream.body).issues = OneIssueAt(f)
          /\ v # JNull =>
               /\ response.status = 502
               /\ response.details = OneIssueAt(f)
               /\ Get(response.rawData, f) = v
          /\ v = JNull =>
               /\ response.status = 200
               /\ Get(response.data, f) = JBool(FALSE)

\* the string "true" in isOpenToWork went through the route and was
\* rejected with one issue
C7_Witness ==
  /\ Done2xx
  /\ upstream.body = FlagBody("isOpenToWork", JStr("true"))
  /\ response.status = 502
  /\ Len(response.details) = 1

\* top-level fields of the processed object that are invalid on their own
InvalidFields(d) ==
  {i \in 1..Len(LinkedInProfileSchema.shape) :
     Parse(LinkedInProfileSchema.shape[i].schema,
           Get(d, LinkedInProfileSchema.shape[i].key)).issues # <<>>}

\* C8: validation is not fail-fast: when several fields are independently
\* invalid the 502 response carries an issue for each of them, tagged with
\* its own path, and no issue for any other field.
C8_AllIssuesReported ==
  (Done2xx /\ processedData # Undef) =>
    LET bad == InvalidFields(processedData)
    IN  /\ bad = {} <=> response.status = 200
        /\ bad # {} =>
             /\ response.status = 502
             /\ \A i \in bad :
                  \E j \in 1..Len(response.details) :
                    response.details[j].path[1] = PKey(LinkedInProfileSchema.shape[i].key)
             /\ \A j \in 1..Len(response.details) :
                  \E i \in bad :
                    response.details[j].path[1] = PKey(LinkedInProfileSchema.shape[i].key)

\* the profile of "should handle profiles with inconsistent data types"
\* was answered 502 with one issue per wrong field
C8_Witness ==
  /\ Done2xx
  /\ upstream.body = ApplyMods(MinimalProfile,
        {Mod("isOpenToWork", JStr("true")),
         Mod("givenRecommendationCount", JStr("5"))})
  /\ response.status = 502
  /\ Len(response.details) = 2
  /\ response.details[1].path = <<PKey("isOpenToWork")>>
  /\ response.details[2].path = <<PKey("givenRecommendationCount")>>

\* deviations that only take something away: a field removed, or a
\* projects object left partial
AbsenceMods ==
  {m \in ScalarMods :
     \/ m.value = Undef
     \/ /\ m.key = "projects"
        /\ m.value \in {JObj(EmptyFields), JObj([total |-> JNum(3)]),
                        JObj([items |-> JArr(<<JNum(1)>>)])}}

\* valid profiles from which defaulted fields are absent
DefaultedProfiles ==
  {IncompleteProfile}
  \cup {ApplyMods(base, S) : base \in {MinimalProfile, IncompleteProfile},
                             S \in {T \in ModSets(MaxDrift) : T \subseteq AbsenceMods}}

\* a field the schema requires is absent from d
RequiredAbsent(d) ==
  \/ \E k \in BoolDefaultKeys \cup CountDefaultKeys : Get(d, k) = Undef
  \/ Get(d, "projects") = Undef
  \/ Get(Get(d, "projects"), "total") = Undef

\* the defaults written by the preprocessing for what is absent from d
DefaultsSupplied(d, processed) ==
  /\ \A k \in BoolDefaultKeys :
       Get(d, k) = Undef => Get(processed, k) = JBool(FALSE)
  /\ \A k \in CountDefaultKeys :
       Get(d, k) = Undef => Get(processed, k) = JNum(0)
  /\ \A k \in NullDefaultKeys :
       Get(d, k) = Undef => Get(processed, k) = JNull
  /\ Get(d, "projects") = Undef =>
       Get(processed, "projects") = JObj([total |-> JNum(0), items |-> JNull])
  /\ Get(d, "projects").t = "obj" =>
       /\ Get(Get(processed, "projects"), "total") =
            (IF Get(Get(d, "projects"), "total") = Undef THEN JNum(0)
             ELSE Get(Get(d, "projects"), "total"))
       /\ Get(Get(processed, "projects"), "items") =
            (IF Get(Get(d, "projects"), "items") = Undef THEN JNull
             ELSE Get(Get(d, "projects"), "items"))

\* C9 as stated: the preprocessing supplies the defaults, a response with
\* defaulted fields absent passes validation through the route, and the
\* schema applied directly to the same object rejects it.
C9_DefaultsOriginal ==
  (Done2xx /\ upstream.body \in DefaultedProfiles) =>
     /\ DefaultsSupplied(upstream.body, processedData)
     /\ response.status = 200
     /\ Parse(LinkedInProfileSchema, upstream.body).issues # <<>>

\* C9 amended: the preprocessing supplies the defaults and such a response
\* passes validation through the route; the schema applied directly rejects
\* the un-preprocessed object exactly when one of the fields it requires
\* (a flag, a count, projects or projects.total) is absent, and accepts it
\* when only nullable collections or projects.items are absent.
C9_Defaults ==
  (Done2xx /\ upstream.body.t = "obj" /\ processedData # Undef) =>
     /\ DefaultsSupplied(upstream.body, processedData)
     /\ upstream.body \in DefaultedProfiles =>
          /\ response.status = 200
          /\ DefaultsSupplied(upstream.body, response.data)
          /\ RequiredAbsent(upstream.body) <=>
               Parse(LinkedInProfileSchema, upstream.body).issues # <<>>

\* the profile lacking both flags, both counts and projects passed through
\* the route although the schema rejects it directly
C9_Witness ==
  /\ Done2xx
  /\ upstream.body = IncompleteProfile
  /\ response.status = 200
  /\ Get(response.data, "isOpenToWork") = JBool(FALSE)
  /\ Get(response.data, "givenRecommendationCount") = JNum(0)
  /\ Parse(LinkedInProfileSchema, upstream.body).issues # <<>>

\* C10: the preprocessing is idempotent: applied to its own output it does
\* not fail and yields an object equal to that output.
C10_PreprocessIdempotent ==
  (pc = "done" /\ processedData # Undef) =>
     /\ ~PreprocessThrows(processedData)
     /\ Preprocess(processedData) = processedData

\* the preprocessing changed a payload with a partial projects object and
\* a position entry carrying an unparsable logo
C10_Witness ==
  /\ pc = "done"
  /\ processedData # Undef
  /\ processedData # upstream.body
  /\ Get(upstream.body, "position") =
       JArr(<<JObj([companyLogo |-> JStr("not-a-url")])>>)
  /\ Get(Get(processedData, "position").a[1], "companyLogo") = JStr("")

(***************************************************************************)
(* Logo sanitization and optional fields                                   *)
(***************************************************************************)
\* entry e of processedData stands for entry orig of the upstream array:
\* its companyLogo is the original value when that passes the URL parser,
\* and the empty string when it fails the parser, is falsy or is missing
LogoSanitized(orig, e) ==
  LET before == Get(orig, "companyLogo")
      after == Get(e, "companyLogo")
  IN  /\ after # JNull
      /\ after # Undef
      /\ \/ after = JStr("")
         \/ after = before /\ isValidUrl(after)
      /\ (~Truthy(before) \/ ~isValidUrl(before)) => after = JStr("")

\* C11: once processedData is built, position and fullPositions are arrays
\* with one entry per upstream entry, and every entry's companyLogo is the
\* original value when it parses as a URL and "" otherwise (missing or
\* unparsable logos included), never null.
C11_LogoSanitized ==
  processedData # Undef =>
    \A k \in PositionKeys :
      LET before == Get(upstream.body, k)
          after == Get(processedData, k)
      IN  /\ after.t = "arr"
          /\ before.t = "arr" =>
                /\ Len(after.a) = Len(before.a)
                /\ \A i \in 1..Len(after.a) :
                      LogoSanitized(before.a[i], after.a[i])
          /\ before.t # "arr" => after.a = <<>>

\* a logo that fails URL parsing was replaced by the empty string
C11_Witness ==
  /\ pc = "done"
  /\ processedData # Undef
  /\ \E k \in PositionKeys :
       LET before == Get(upstream.body, k)
       IN  /\ before.t = "arr"
           /\ Len(before.a) > 0
           /\ Get(before.a[1], "companyLogo") = JStr("not-a-url")
           /\ Get(Get(processedData, k).a[1], "companyLogo") = JStr("")

\* the keys LinkedInProfileSchema declares with .optional()
OptionalProfileKeys ==
  {"id", "urn", "username", "firstName", "lastName", "isPremium", "isCreator",
   "isPrime", "profilePicture", "backgroundImage", "summary", "headline",
   "geo", "languages", "educations", "position", "fullPositions", "skills",
   "givenRecommendation", "receivedRecommendation", "courses",
   "certifications", "honors", "volunteering", "supportedLocales",
   "multiLocaleFirstName", "multiLocaleLastName", "multiLocaleHeadline"}

\* the keys PositionSchema declares with .optional(): all of them
OptionalPositionKeys ==
  {"companyId", "companyName", "companyUsername", "companyURL", "companyLogo",
   "companyIndustry", "companyStaffCountRange", "title", "multiLocaleTitle",
   "multiLocaleCompanyName", "location", "locationType", "description",
   "employmentType", "start", "end"}

\* the object v without its key k
Without(v, k) == JObj([x \in (DOMAIN v.o) \ {k} |-> v.o[x]])

\* the profile d with entry i of its array pk replaced by e
WithEntry(d, pk, i, e) ==
  JObj(Merge(d.o, [x \in {pk} |-> JArr([d.o[pk].a EXCEPT ![i] = e])]))

Validates(d) == ValidateProfile(d).issues = <<>>

\* C12: a profile that validated still validates with any one of its
\* optional top-level fields removed, and with any one optional field
\* removed from any one entry of position or fullPositions.
C12_MonotonicTolerance ==
  (pc = "done" /\ ranValidate /\ response.status = 200) =>
    /\ \A k \in OptionalProfileKeys \cap DOMAIN processedData.o :
         Validates(Without(processedData, k))
    /\ \A pk \in PositionKeys :
         \A i \in 1..Len(processedData.o[pk].a) :
           LET e == processedData.o[pk].a[i]
           IN  \A k \in OptionalPositionKeys \cap DOMAIN e.o :
                 Validates(WithEntry(processedData, pk, i, Without(e, k)))

\* a validated profile has its optional headline and picture, and a position
\* entry carrying two optional fields next to the sanitized logo
C12_Witness ==
  /\ pc = "done"
  /\ ranValidate
  /\ response.status = 200
  /\ {"headline", "profilePicture"} \subseteq DOMAIN processedData.o
  /\ \E i \in 1..Len(processedData.o["position"].a) :
       {"title", "companyName", "companyLogo"}
          \subseteq DOMAIN processedData.o["position"].a[i].o

(***************************************************************************)
(* CSV ingestion: useCSVUpload                                             *)
(***************************************************************************)
\* preamble lines put before a header+data block
MaxPreamble == 2
\* data lines of a header+data block
MaxRows == 2
\* uploadCSV calls awaiting their file at the same time
MaxInFlight == 2

\* String.prototype.endsWith
EndsWith(s, suffix) ==
  /\ Len(s) >= Len(suffix)
  /\ SubSeq(s, Len(s) - Len(suffix) + 1, Len(s)) = suffix

UpperLetters == "ABCDEFGHIJKLMNOPQRSTUVWXYZ"
LowerLetters == "abcdefghijklmnopqrstuvwxyz"
LowerChar(c) ==
  IF \E i \in 1..26 : CharAt(UpperLetters, i) = c
  THEN CharAt(LowerLetters, CHOOSE i \in 1..26 : CharAt(UpperLetters, i) = c)
  ELSE c

\* String.prototype.toLowerCase
RECURSIVE toLowerCase(_)
toLowerCase(s) ==
  IF s = "" THEN ""
  ELSE LowerChar(CharAt(s, 1)) \o toLowerCase(SubSeq(s, 2, Len(s)))

\* String.prototype.trim
WhiteSpace == {" ", "\t"}
RECURSIVE trim(_)
trim(s) ==
  IF s = "" THEN ""
  ELSE IF CharAt(s, 1) \in WhiteSpace THEN trim(SubSeq(s, 2, Len(s)))
  ELSE IF CharAt(s, Len(s)) \in WhiteSpace THEN trim(SubSeq(s, 1, Len(s) - 1))
  ELSE s

\* the header aliases of transformHeader
headerMap ==
  [h \in {"first name", "firstname", "first_name", "last name", "lastname",
          "last_name", "url", "website", "profile url", "email address",
          "email", "company", "organization", "position", "title",
          "job title", "connected on", "connected", "connection date"} |->
     CASE h \in {"first name", "firstname", "first_name"} -> "firstName"
       [] h \in {"last name", "lastname", "last_name"} -> "lastName"
       [] h \in {"url", "website", "profile url"} -> "url"
       [] h \in {"email address", "email"} -> "emailAddress"
       [] h \in {"company", "organization"} -> "company"
       [] h \in {"position", "title", "job title"} -> "position"
       [] OTHER -> "connectedOn"]

\* headerMap[header.toLowerCase().trim()] || header
transformHeader(header) ==
  LET normalizedHeader == trim(toLowerCase(header))
  IN  IF normalizedHeader \in DOMAIN headerMap THEN headerMap[normalizedHeader]
      ELSE header

\* A text is the sequence of its lines and a line the sequence of its cells
\* (the delimiter and quote handling of the parser is not modelled); the
\* empty line has the single empty cell.
EmptyLine == <<"">>

Min(a, b) == IF a < b THEN a ELSE b

\* one data line under the header fields: cell i goes to field i, the last
\* of equal fields wins, a line shorter than the header leaves the
\* remaining fields undefined (absent)
RowObject(fields, cells) ==
  LET n == Min(Len(fields), Len(cells))
  IN  [k \in {fields[i] : i \in 1..n} |->
         cells[CHOOSE i \in 1..n :
                 fields[i] = k /\ \A j \in (i + 1)..n : fields[j] # k]]

\* Papa.parse(text, {header: true, skipEmptyLines: true, transformHeader}):
\* results.data. Empty lines are dropped, the first remaining line gives the
\* field names, every other line one row object.
PapaParse(text) ==
  LET lines == SelectSeq(text, LAMBDA l : l # EmptyLine)
  IN  IF lines = <<>> THEN <<>>
      ELSE LET fields == [i \in 1..Len(lines[1]) |-> transformHeader(lines[1][i])]
           IN  [i \in 1..(Len(lines) - 1) |-> RowObject(fields, lines[i + 1])]

\* truthiness of row[k]
HasValue(row, k) == k \in DOMAIN row /\ row[k] # ""

\* row[k] || ''
OrEmpty(row, k) == IF HasValue(row, k) THEN row[k] ELSE ""

\* the negation of the skip test of the forEach callback
Retained(row) ==
  HasValue(row, "firstName") \/ HasValue(row, "lastName") \/ HasValue(row, "company")

\* String(n) of a non-negative integer
RECURSIVE Decimal(_)
Decimal(n) ==
  IF n < 10 THEN CharAt("0123456789", n + 1)
  ELSE Decimal(n \div 10) \o CharAt("0123456789", (n % 10) + 1)

\* an id made of the time stamp alone
ContactIdNoIndex(now, index) == "contact-" \o Decimal(now)

\* `contact-${Date.now()}-${index}`
ContactId(now, index) == "contact-" \o Decimal(now) \o "-" \o Decimal(index)

ContactFields ==
  {"firstName", "lastName", "url", "emailAddress", "company", "position",
   "connectedOn"}

\* the Contact built for a retained row
ContactOf(row, now, index) ==
  [k \in ContactFields \cup {"id"} |->
     IF k = "id" THEN ContactId(now, index) ELSE OrEmpty(row, k)]

\* the rows of results.data that pass the skip test
Kept(data) == {i \in 1..Len(data) : Retained(data[i])}

\* validContacts after the forEach over results.data; now is what the
\* calls of Date.now() returned, one call per retained row, in row order
RECURSIVE ValidContactsFrom(_, _, _, _)
ValidContactsFrom(data, now, i, calls) ==
  IF i > Len(data) THEN <<>>
  ELSE IF Retained(data[i])
  THEN <<ContactOf(data[i], now[calls + 1], i - 1)>>
       \o ValidContactsFrom(data, now, i + 1, calls + 1)
  ELSE ValidContactsFrom(data, now, i + 1, calls)
ValidContacts(data, now) == ValidContactsFrom(data, now, 1, 0)

\* values Date.now() returns during one forEach (milliseconds, shortened)
Times == {1700, 1701}

\* file names handed to uploadCSV
FileNames ==
  {"Connections.csv", "Connections.CSV", "Connections.csv.txt", "notes.txt",
   ".csv", "csv"}

\* the lines a LinkedIn export puts before its header; longer preambles
\* repeat them
PreambleLines ==
  << <<"Notes:">>,
     <<"When exporting your connection data, you may notice that some of the email addresses are missing.">>,
     EmptyLine,
     <<"Additional metadata line">>,
     EmptyLine >>

\* the first n preamble lines
Preamble(n) == [i \in 1..n |-> PreambleLines[((i - 1) % Len(PreambleLines)) + 1]]

Preambles == {Preamble(n) : n \in 0..MaxPreamble}

\* the header of a LinkedIn connections export
LinkedInHeader ==
  <<"First Name", "Last Name", "URL", "Email Address", "Company", "Position",
    "Connected On">>

\* a header written with other aliases, other case and padding, and with a
\* column the hook does not know
AliasHeader == <<"id", " FIRSTNAME ", "last_name", "Organization", "Job Title">>

\* data lines under LinkedInHeader
LinkedInLines ==
  << <<"Bin", "Fan", "https://www.linkedin.com/in/bin-fan", "",
       "Alluxio, Inc.", "VP, Open Source", "03 Jun 2025">>,
     <<"", "", "", "", "", "CEO", "">>,
     <<" ", "", "", "", "N/A", "CEO", "null">>,
     <<"", "", "", "", "", "", "">>,
     <<" Jane ", "Smith", "N/A", "undefined", " StartupXYZ ", "", "2024-02-20">>,
     <<"Ann">>,
     EmptyLine >>

\* data lines under AliasHeader
AliasLines ==
  << <<"7", "John", "Doe", "Tech Corp", "Software Engineer">>,
     <<"7", "Al", "", "", "">>,
     <<"7", "", "", "", "CEO">> >>

\* the runs of at most n consecutive lines of a list
Runs(lines, n) ==
  {SubSeq(lines, p[1], p[2]) :
     p \in {q \in (1..Len(lines)) \X (0..Len(lines)) :
              q[2] >= q[1] - 1 /\ q[2] - q[1] + 1 <= n}}

\* header+data blocks
Blocks ==
  {<<LinkedInHeader>> \o r : r \in Runs(LinkedInLines, MaxRows)}
  \cup {<<AliasHeader>> \o r : r \in Runs(AliasLines, MaxRows)}

\* the texts file.text() resolves with
Texts == {p \o b : p \in Preambles, b \in Blocks}

\* a call of toast.error / toast.success / toast.loading: the id option
\* ("" when none is given), the message template and the values put in it
Toast(kind, id, msg, args) == [kind |-> kind, id |-> id, msg |-> msg, args |-> args]
ExtensionToast == Toast("error", "", "please upload a file in CSV format", <<>>)
LoadingToast == Toast("loading", "csv-upload", "processing the CSV file...", <<>>)
NoContactsToast ==
  Toast("error", "csv-upload", "no valid contact data found in the CSV file", <<>>)
ImportedToast(n) ==
  Toast("success", "csv-upload", "imported {0} contacts", <<n>>)
ParseErrorToast ==
  Toast("error", "csv-upload", "an error occurred while parsing the CSV file", <<>>)
ReadErrorToast ==
  Toast("error", "csv-upload", "an error occurred while reading the file", <<>>)
ClearedToast == Toast("success", "", "cleared all contacts", <<>>)
ProcessErrorToast ==
  Toast("error", "csv-upload", "an error occurred while processing the CSV data", <<>>)

\* held: whether contacts were held when the step began
Call(op, text, rows) ==
  [op |-> op, text |-> text, rows |-> rows, threw |-> FALSE,
   held |-> contacts # <<>>]

\* uploadCSV announcing the upload before it checks the extension
uploadCSVCheckLate(name) ==
  /\ isUploading' = TRUE
  /\ IF ~EndsWith(name, ".csv")
     THEN /\ toasts' = <<LoadingToast, ExtensionToast>>
          /\ last' = Call("rejected", NoText, 0)
          /\ UNCHANGED <<contacts, inFlight>>
     ELSE /\ inFlight < MaxInFlight
          /\ toasts' = <<LoadingToast>>
          /\ inFlight' = inFlight + 1
          /\ last' = Call("started", NoText, 0)
          /\ UNCHANGED contacts
  /\ parserInput' = NoText
  /\ UNCHANGED <<routeVars, guardVars, appVars>>

\* uploadCSV up to its first await: the extension check, then the upload is
\* announced and the file is asked for its text
uploadCSV(name) ==
  /\ IF ~EndsWith(name, ".csv")
     THEN /\ toasts' = <<ExtensionToast>>
          /\ last' = Call("rejected", NoText, 0)
          /\ UNCHANGED <<contacts, isUploading, inFlight>>
     ELSE /\ inFlight < MaxInFlight
          /\ isUploading' = TRUE
          /\ toasts' = <<LoadingToast>>
          /\ inFlight' = inFlight + 1
          /\ last' = Call("started", NoText, 0)
          /\ UNCHANGED contacts
  /\ parserInput' = NoText
  /\ UNCHANGED <<routeVars, guardVars, appVars>>

\* complete storing validContacts before it looks at their number
FileTextResolvesSetFirst(text, data, now) ==
  /\ inFlight > 0
  /\ parserInput' = text
  /\ LET validContacts == ValidContacts(data, now)
     IN  /\ contacts' = validContacts
         /\ IF validContacts = <<>>
            THEN /\ toasts' = <<NoContactsToast>>
                 /\ last' = Call("empty", text, Len(data))
            ELSE /\ toasts' = <<ImportedToast(Len(validContacts))>>
                 /\ last' = Call("imported", text, Len(data))
  /\ isUploading' = FALSE
  /\ inFlight' = inFlight - 1
  /\ UNCHANGED <<routeVars, guardVars, appVars>>

\* complete appending validContacts to the contacts held
FileTextResolvesAppend(text, data, now) ==
  /\ inFlight > 0
  /\ parserInput' = text
  /\ LET validContacts == ValidContacts(data, now)
     IN  IF validContacts = <<>>
         THEN /\ toasts' = <<NoContactsToast>>
              /\ last' = Call("empty", text, Len(data))
              /\ UNCHANGED contacts
         ELSE /\ contacts' = contacts \o validContacts
              /\ toasts' = <<ImportedToast(Len(validContacts))>>
              /\ last' = Call("imported", text, Len(data))
  /\ isUploading' = FALSE
  /\ inFlight' = inFlight - 1
  /\ UNCHANGED <<routeVars, guardVars, appVars>>

\* file.text() resolves with text and the parser, handed the text, calls
\* complete with results.data = data: the rows are filtered into contacts,
\* the outcome is announced, finally isUploading is reset
FileTextResolves(text, data, now) ==
  /\ inFlight > 0
  /\ parserInput' = text
  /\ LET validContacts == ValidContacts(data, now)
     IN  IF validContacts = <<>>
         THEN /\ toasts' = <<NoContactsToast>>
              /\ last' = Call("empty", text, Len(data))
              /\ UNCHANGED contacts
         ELSE /\ contacts' = validContacts
              /\ toasts' = <<ImportedToast(Len(validContacts))>>
              /\ last' = Call("imported", text, Len(data))
  /\ isUploading' = FALSE
  /\ inFlight' = inFlight - 1
  /\ UNCHANGED <<routeVars, guardVars, appVars>>

\* file.text() resolves with text and the parser calls error instead
ParserError(text) ==
  /\ inFlight > 0
  /\ parserInput' = text
  /\ toasts' = <<ParseErrorToast>>
  /\ last' = Call("parse-error", text, 0)
  /\ isUploading' = FALSE
  /\ inFlight' = inFlight - 1
  /\ UNCHANGED <<contacts, routeVars, guardVars, appVars>>

\* file.text() resolves with text and the body of complete throws: its catch
\* announces it, nothing is stored, finally isUploading is reset
CompleteThrows(text) ==
  /\ inFlight > 0
  /\ parserInput' = text
  /\ toasts' = <<ProcessErrorToast>>
  /\ last' = Call("process-error", text, 0)
  /\ isUploading' = FALSE
  /\ inFlight' = inFlight - 1
  /\ UNCHANGED <<contacts, routeVars, guardVars, appVars>>

\* a read failure handled without the finally block
FileTextRejectsNoFinally ==
  /\ inFlight > 0
  /\ parserInput' = NoText
  /\ toasts' = <<ReadErrorToast>>
  /\ last' = Call("read-error", NoText, 0)
  /\ inFlight' = inFlight - 1
  /\ UNCHANGED <<isUploading, contacts, routeVars, guardVars, appVars>>

\* file.text() rejects: the outer catch announces it, finally isUploading is
\* reset
FileTextRejects ==
  /\ inFlight > 0
  /\ parserInput' = NoText
  /\ toasts' = <<ReadErrorToast>>
  /\ last' = Call("read-error", NoText, 0)
  /\ isUploading' = FALSE
  /\ inFlight' = inFlight - 1
  /\ UNCHANGED <<contacts, routeVars, guardVars, appVars>>

clearContacts ==
  /\ contacts' = <<>>
  /\ toasts' = <<ClearedToast>>
  /\ last' = Call("cleared", NoText, 0)
  /\ parserInput' = NoText
  /\ UNCHANGED <<isUploading, inFlight, routeVars, guardVars, appVars>>

\* the texts on which the parser is let fail (only the text is recorded)
HeaderOnlyTexts == {p \o <<LinkedInHeader>> : p \in Preambles}

\* every text with what the parser makes of it
Parsed == {[text |-> t, data |-> PapaParse(t)] : t \in Texts}

InitCSV == InitCSVHook /\ InitHandler /\ InitGuard /\ rapidApiKey /\ InitApp

NextCSV ==
  \/ \E name \in FileNames : uploadCSV(name)
  \/ \E u \in Parsed :
       \E now \in [1..Cardinality(Kept(u.data)) -> Times] :
         FileTextResolves(u.text, u.data, now)
  \/ \E text \in HeaderOnlyTexts : ParserError(text)
  \/ \E text \in HeaderOnlyTexts : CompleteThrows(text)
  \/ FileTextRejects
  \/ clearContacts

SpecCSV == InitCSV /\ [][NextCSV]_vars

(***************************************************************************)
(* Properties of the CSV hook                                              *)
(***************************************************************************)
\* the latest step was a parse that called complete
Completed == last.op \in {"imported", "empty"}

\* results.data of a text
DataOf(text) == (CHOOSE u \in Parsed : u.text = text).data

\* cleaning as the specification words it: undefined gives "", the value is
\* trimmed, and the tokens null, undefined, N/A give ""
NullTokens == {"null", "undefined", "N/A"}
Cleaned(row, k) ==
  IF k \notin DOMAIN row THEN ""
  ELSE IF trim(row[k]) \in NullTokens THEN "" ELSE trim(row[k])

\* the rows that have a cleaned firstName, lastName or company
CleanKept(data) ==
  {i \in 1..Len(data) :
     \E k \in {"firstName", "lastName", "company"} : Cleaned(data[i], k) # ""}

\* the rows of the latest parse that the contact list holds a Contact of
\* (row i is the one whose forEach index is i - 1)
HeldRows ==
  IF last.op # "imported" THEN {}
  ELSE {i \in 1..last.rows :
          \E j \in 1..Len(contacts) : \E t \in Times :
            contacts[j].id = ContactId(t, i - 1)}

\* C13: after a parse the rows that yielded a Contact are exactly the rows
\* with at least one of firstName, lastName, company non-empty after
\* cleaning (trim, null tokens to "").
C13_RetentionLaw ==
  Completed => HeldRows = CleanKept(DataOf(last.text))

\* the Contact of the list made from row i of the latest parse
ContactOfRow(i) ==
  contacts[CHOOSE j \in 1..Len(contacts) :
             \E t \in Times : contacts[j].id = ContactId(t, i - 1)]

\* C14: every one of the seven fields of every Contact of an upload is the
\* cleaned value of the row's field.
C14_FieldsCleaned ==
  last.op = "imported" =>
    \A i \in HeldRows : \A k \in ContactFields :
      ContactOfRow(i)[k] = Cleaned(DataOf(last.text)[i], k)

\* the header+data block of a text: the text from its header line on
RECURSIVE BlockOf(_)
BlockOf(text) ==
  IF text = <<>> \/ Head(text) \in {LinkedInHeader, AliasHeader} THEN text
  ELSE BlockOf(Tail(text))

\* the fields of the contacts a parse of data retains
FieldsOf(cs) == [j \in 1..Len(cs) |-> [k \in ContactFields |-> cs[j][k]]]
Imported(data) ==
  FieldsOf(ValidContacts(data, [i \in 1..Len(data) |-> 1700]))

\* C15: the parser is handed the text from its header line on, without the
\* preamble, and what an upload imports from a text is what it imports from
\* the text's header+data block alone.
C15_HeaderLocatorStable ==
  Completed =>
    /\ parserInput = BlockOf(last.text)
    /\ (IF last.op = "imported" THEN FieldsOf(contacts) ELSE <<>>)
         = Imported(DataOf(BlockOf(last.text)))

\* the steps that end an upload with a structural error
StructuralErrors == {"rejected", "read-error", "parse-error", "empty"}

\* C16: the step of uploadCSV for a name not ending in ".csv" makes one
\* error toast and nothing else: isUploading and the contacts are as before,
\* no read is started and nothing is handed to the parser.
C16_WrongExtensionRejected ==
  [][last'.op = "rejected" =>
       /\ toasts' = <<ExtensionToast>>
       /\ isUploading' = isUploading
       /\ contacts' = contacts
       /\ inFlight' = inFlight
       /\ parserInput' = NoText]_vars

\* a file with a wrong name was refused while contacts were held and no
\* upload was running
C16_Witness ==
  /\ last.op = "rejected"
  /\ contacts # <<>>
  /\ ~isUploading
  /\ inFlight = 0

\* C17: a step ending an upload with a structural error (wrong extension,
\* read failure, parser error, no retainable row) does not throw, makes one
\* error toast and leaves the contact list as it was.
C17_StructuralErrorContained ==
  [][last'.op \in StructuralErrors =>
       /\ ~last'.threw
       /\ Len(toasts') = 1
       /\ toasts'[1].kind = "error"
       /\ contacts' = contacts]_vars

\* a text without retainable rows was uploaded while contacts were held
C17_Witness ==
  /\ last.op = "empty"
  /\ last.rows > 0
  /\ contacts # <<>>

\* C18: the step that settles an upload makes exactly one toast, chosen by
\* the outcome: an error for a parse failure and for no valid row, a success
\* carrying the number of imported contacts when no row was dropped, and a
\* success carrying the imported and the skipped numbers when some rows
\* were dropped and some retained.
C18_OneTerminalToast ==
  last.op \in {"parse-error", "empty", "imported"} =>
    /\ Len(toasts) = 1
    /\ last.op = "parse-error" => toasts[1] = ParseErrorToast
    /\ last.op = "empty" => toasts[1] = NoContactsToast
    /\ last.op = "imported" =>
         /\ toasts[1].kind = "success"
         /\ toasts[1].args =
              (IF last.rows = Len(contacts) THEN <<Len(contacts)>>
               ELSE <<Len(contacts), last.rows - Len(contacts)>>)

\* every cell of the data lines
SourceCells ==
  UNION {{l[c] : c \in 1..Len(l)} :
           l \in {LinkedInLines[i] : i \in 1..Len(LinkedInLines)}
                 \cup {AliasLines[i] : i \in 1..Len(AliasLines)}}

\* C19: the ids of the contacts held are pairwise distinct, and none is a
\* value of the uploaded data.
C19_DistinctIds ==
  /\ \A i, j \in 1..Len(contacts) : i # j => contacts[i].id # contacts[j].id
  /\ \A i \in 1..Len(contacts) : contacts[i].id \notin SourceCells

\* two rows of a file with an id column of equal values were retained at
\* the same millisecond
C19_Witness ==
  /\ last.op = "imported"
  /\ Head(last.text) = AliasHeader
  /\ Len(contacts) = 2
  /\ \E t \in Times : contacts[1].id = ContactId(t, 0)
                      /\ contacts[2].id = ContactId(t, 1)

\* the retained rows of data in source order
KeptInOrder(data) ==
  LET kept == Kept(data)
  IN  [k \in 1..Cardinality(kept) |->
         CHOOSE i \in kept : Cardinality({j \in kept : j <= i}) = k]

\* C29: after a successful upload the contact list holds one Contact per
\* retained row of that upload and no other, in the order of the rows, each
\* with the row's fields and the row's index in its id, whatever the list
\* held before; after clearContacts the list is empty.
C29_ContactsAreTheUpload ==
  /\ last.op = "imported" =>
       LET data == DataOf(last.text)
           rows == KeptInOrder(data)
       IN  /\ Len(contacts) = Len(rows)
           /\ \A k \in 1..Len(rows) :
                /\ \A f \in ContactFields :
                     contacts[k][f] = OrEmpty(data[rows[k]], f)
                /\ \E t \in Times : contacts[k].id = ContactId(t, rows[k] - 1)
  /\ last.op = "cleared" => contacts = <<>>

\* a file of two rows, one of them skipped, was imported while the contacts
\* of an earlier upload were held
C29_Witness ==
  /\ last.op = "imported"
  /\ last.held
  /\ last.rows = 2
  /\ Len(contacts) = 1

\* the ways an upload settles
Settlements == {"imported", "empty", "parse-error", "process-error", "read-error"}

\* C30: a step of uploadCSV that starts an upload sets isUploading; a step
\* that settles one (import, no valid row, parser error, exception in
\* complete, read error) ends with isUploading false; isUploading is never
\* true while no upload is in progress; and the uploads write the contact
\* list only in the step that settles them, which ends with isUploading
\* false.
C30_UploadingBracketsTheCall ==
  [][/\ inFlight' > inFlight => isUploading' /\ last'.op = "started"
     /\ inFlight' < inFlight => ~isUploading' /\ last'.op \in Settlements
     /\ last'.op \in Settlements => inFlight' = inFlight - 1 /\ ~isUploading'
     /\ isUploading' => inFlight' > 0
     /\ contacts' # contacts =>
          \/ last'.op = "cleared"
          \/ last'.op = "imported" /\ ~isUploading']_vars

\* the body of complete threw while contacts were held: the upload is over
\* and isUploading is false
C30_Witness ==
  /\ last.op = "process-error"
  /\ ~isUploading
  /\ inFlight = 0
  /\ contacts # <<>>

(***************************************************************************)
(* The route guard: useAuthGuard                                           *)
(***************************************************************************)
\* router.push calls followed since the first render
MaxPushes == 3

\* users the auth context provides: none, a verified one, an unverified
\* one, one without the emailVerified property, an empty object
AuthUsers ==
  {JNull,
   JObj([uid |-> JStr("test-uid"), emailVerified |-> JBool(TRUE)]),
   JObj([uid |-> JStr("test-uid"), emailVerified |-> JBool(FALSE)]),
   JObj([uid |-> JStr("test-uid")]),
   JObj(EmptyFields)}

\* values of the redirectTo argument
RedirectPaths == {"/signin", "/custom-signin", "/login", "/signup"}

\* the effect sending an unverified user to redirectTo
GuardEffectUnverifiedToRedirect(u, l, to, requireVerified) ==
  IF l THEN <<>>
  ELSE IF ~Truthy(u) THEN <<to>>
  ELSE IF requireVerified /\ ~Truthy(Get(u, "emailVerified")) THEN <<to>>
  ELSE <<>>

\* the body of the effect: the router.push calls it makes
GuardEffect(u, l, to, requireVerified) ==
  IF l THEN <<>>
  ELSE IF ~Truthy(u) THEN <<to>>
  ELSE IF requireVerified /\ ~Truthy(Get(u, "emailVerified")) THEN <<"/signup">>
  ELSE <<>>

\* the component renders with the hook called as useAuthGuard(to,
\* requireVerified): the first render, or a later one with other arguments;
\* the effect runs after it
Render(to, requireVerified) ==
  /\ ~mounted \/ to # redirectTo \/ requireVerified # requireEmailVerification
  /\ LET pushes == GuardEffect(user, loading, to, requireVerified)
     IN  /\ pushCount + Len(pushes) <= MaxPushes
         /\ pushed' = pushes
         /\ pushCount' = pushCount + Len(pushes)
  /\ mounted' = TRUE
  /\ redirectTo' = to
  /\ requireEmailVerification' = requireVerified
  /\ UNCHANGED <<user, loading, routeVars, csvVars, appVars>>

\* onAuthStateChanged reports u: the provider stores it and ends loading;
\* a mounted guard whose user or loading changed runs its effect again
AuthStateChanged(u) ==
  /\ u # user \/ loading
  /\ user' = u
  /\ loading' = FALSE
  /\ IF mounted
     THEN LET pushes == GuardEffect(u, FALSE, redirectTo, requireEmailVerification)
          IN  /\ pushCount + Len(pushes) <= MaxPushes
              /\ pushed' = pushes
              /\ pushCount' = pushCount + Len(pushes)
     ELSE UNCHANGED <<pushed, pushCount>>
  /\ UNCHANGED <<mounted, redirectTo, requireEmailVerification, routeVars,
                 csvVars, appVars>>

InitGuardSpec ==
  InitGuard /\ InitHandler /\ InitCSVHook /\ rapidApiKey /\ InitApp

NextGuard ==
  \/ \E to \in RedirectPaths : \E requireVerified \in BOOLEAN :
       Render(to, requireVerified)
  \/ \E u \in AuthUsers : AuthStateChanged(u)

SpecGuard == InitGuardSpec /\ [][NextGuard]_vars

MaxRenders == 6

\* the page without its email-verification branch
ScreenNoVerification(u, l) ==
  IF l THEN "loading" ELSE "chat"

\* what Chat returns for the auth context (u, l); isEmailVerified is
\* user?.emailVerified || false
Screen(u, l) ==
  LET isEmailVerified == Truthy(Get(u, "emailVerified"))
  IN  IF l THEN "loading"
      ELSE IF Truthy(u) /\ ~isEmailVerified THEN "verification"
      ELSE "chat"

\* the first render of the page, with the auth context as it is
ChatMount ==
  /\ screen = "none"
  /\ screen' = Screen(user, loading)
  /\ renders' = 1
  /\ UNCHANGED <<leftSidebarOpen, rightSidebarOpen, guardVars, routeVars,
                 csvVars, aiVars, chatVars, swrVars>>

\* the auth context provides another value and the page renders again
ContextChanged(u, l) ==
  /\ screen # "none"
  /\ renders < MaxRenders
  /\ u # user \/ l # loading
  /\ user' = u
  /\ loading' = l
  /\ screen' = Screen(u, l)
  /\ renders' = renders + 1
  /\ UNCHANGED <<leftSidebarOpen, rightSidebarOpen, mounted, redirectTo,
                 requireEmailVerification, pushed, pushCount, routeVars,
                 csvVars, aiVars, chatVars, swrVars>>

\* onToggle of the left panel, which only the chat content shows
ToggleLeft ==
  /\ screen = "chat"
  /\ renders < MaxRenders
  /\ leftSidebarOpen' = ~leftSidebarOpen
  /\ screen' = Screen(user, loading)
  /\ renders' = renders + 1
  /\ UNCHANGED <<rightSidebarOpen, guardVars, routeVars, csvVars, aiVars,
                 chatVars, swrVars>>

\* onToggle of the right panel
ToggleRight ==
  /\ screen = "chat"
  /\ renders < MaxRenders
  /\ rightSidebarOpen' = ~rightSidebarOpen
  /\ screen' = Screen(user, loading)
  /\ renders' = renders + 1
  /\ UNCHANGED <<leftSidebarOpen, guardVars, routeVars, csvVars, aiVars,
                 chatVars, swrVars>>

InitPageSpec ==
  /\ InitPage /\ InitGuard /\ InitHandler /\ rapidApiKey /\ InitCSVHook
  /\ InitPOST /\ azureEnv = Configured /\ InitChat /\ InitSWR

NextPage ==
  \/ ChatMount
  \/ \E u \in AuthUsers : \E l \in BOOLEAN : ContextChanged(u, l)
  \/ ToggleLeft
  \/ ToggleRight

SpecPage == InitPageSpec /\ [][NextPage]_vars

\* C21: once the page has rendered, what it shows is fixed by the auth
\* state of that render: the loading screen while loading; the
\* email-verification screen when not loading and a user exists whose
\* emailVerified is not true; the chat content in every other case, and in
\* no case where loading is set or an unverified user exists.
C21_ChatGated ==
  screen # "none" =>
    LET unverified == user # JNull /\ Get(user, "emailVerified") # JBool(TRUE)
    IN  /\ loading => screen = "loading"
        /\ (~loading /\ unverified) => screen = "verification"
        /\ (~loading /\ ~unverified) => screen = "chat"
        /\ screen = "chat" => ~loading /\ ~unverified

\* the chat content was shown and its left panel closed, then the auth
\* state changed to an unverified user and the verification screen is shown
C21_Witness ==
  /\ renders >= 3
  /\ ~leftSidebarOpen
  /\ ~loading
  /\ user # JNull
  /\ Get(user, "emailVerified") = JBool(FALSE)
  /\ screen = "verification"

(***************************************************************************)
(* The POST handlers of the AI routes: chat, recommendations,              *)
(* generate-message                                                        *)
(***************************************************************************)
\* entries of the recommendation list the AI service answers with
MaxRecs == 3

\* the contact object the three request schemas share
ContactShape ==
  ZObject(<<F("id", ZString), F("firstName", ZString), F("lastName", ZString),
            F("company", ZString), F("position", ZString), F("url", ZString),
            F("emailAddress", ZString), F("connectedOn", ZString)>>)

MessageShape ==
  ZObject(<<F("role", ZEnum({"user", "assistant", "system"})),
            F("content", ZString)>>)

ChatRequestSchema ==
  ZObject(<<F("messages", ZArray(MessageShape)),
            F("contacts", ZOptional(ZArray(ContactShape))),
            F("userGoal", ZOptional(ZString))>>)

RecommendationRequestSchema ==
  ZObject(<<F("userGoal", ZMin(ZString, 10)),
            F("contacts", ZMin(ZArray(ContactShape), 1)),
            F("maxRecommendations",
              ZDefault(ZMax(ZMin(ZNumber, 1), 10), JNum(5)))>>)

MessageGenerationRequestSchema ==
  ZObject(<<F("contact", ContactShape),
            F("userGoal", ZMin(ZString, 10)),
            F("messageType",
              ZDefault(ZEnum({"linkedin", "email", "introduction"}),
                       JStr("linkedin"))),
            F("tone",
              ZDefault(ZEnum({"professional", "friendly", "casual", "formal"}),
                       JStr("professional"))),
            F("keyTopics", ZOptional(ZArray(ZString))),
            F("customContext", ZOptional(ZString))>>)

Endpoints == {"chat", "recommendations", "generate-message"}

\* the request schema of each route
RequestSchema(route) ==
  CASE route = "chat" -> ChatRequestSchema
    [] route = "recommendations" -> RecommendationRequestSchema
    [] route = "generate-message" -> MessageGenerationRequestSchema

\* the message of each route's last-resort 500
UnexpectedError(route) ==
  CASE route = "chat" ->
         "An unexpected error occurred while processing your request"
    [] route = "recommendations" ->
         "An unexpected error occurred while generating recommendations"
    [] route = "generate-message" ->
         "An unexpected error occurred while generating the message"

\* contacts of the request bodies
ContactOfId(id, first) ==
  JObj([id |-> JStr(id), firstName |-> JStr(first), lastName |-> JStr("Silva"),
        company |-> JStr("Acme"), position |-> JStr("CEO"),
        url |-> JStr("https://www.linkedin.com/in/ana"),
        emailAddress |-> JStr(""), connectedOn |-> JStr("15 Jan 2024")])
Contact1 == ContactOfId("c1", "Ana")
Contact2 == ContactOfId("c2", "Bo")
\* a contact with required fields missing
PartialContact == JObj([id |-> JStr("1")])

\* goals of 5, 9, 10 and 28 characters, and a goal that is no string
GoalSamples ==
  {JStr("Short"), JStr("123456789"), JStr("1234567890"),
   JStr("Expand my business to Brazil"), JNum(5), Undef}

\* an object of the given fields, the Undef ones left out
ObjectOf(fields) ==
  JObj([k \in {x \in DOMAIN fields : fields[x] # Undef} |-> fields[k]])

ChatBodies ==
  {ObjectOf([messages |-> m, contacts |-> c, userGoal |-> g]) :
     m \in {Undef, JStr("hi"), JArr(<<>>),
            JArr(<<JObj([role |-> JStr("user"), content |-> JStr("Hello")])>>),
            JArr(<<JObj([role |-> JStr("invalid_role"),
                         content |-> JStr("Hello")])>>),
            JArr(<<JObj([role |-> JStr("user"), content |-> JStr("Hello")]),
                   JObj([role |-> JStr("assistant")])>>)},
     c \in {Undef, JArr(<<>>), JArr(<<Contact1>>), JArr(<<PartialContact>>)},
     g \in {Undef, JStr("Short"), JNum(5)}}

RecommendationBodies ==
  {ObjectOf([userGoal |-> g, contacts |-> c, maxRecommendations |-> n]) :
     g \in GoalSamples,
     c \in {Undef, JArr(<<>>), JArr(<<Contact1>>), JArr(<<Contact1, Contact2>>),
            JArr(<<Contact1, PartialContact>>)},
     n \in {Undef, JNum(0), JNum(1), JNum(2), JNum(10), JNum(11), JStr("3")}}

MessageBodies ==
  {ObjectOf([contact |-> c, userGoal |-> g, messageType |-> mt, tone |-> tn]) :
     c \in {Undef, Contact1, PartialContact},
     g \in GoalSamples,
     mt \in {Undef, JStr("email"), JStr("sms")},
     tn \in {Undef, JStr("casual")}}

\* what request.json() resolves with for each route; Unparsable when it
\* rejects
BodiesOf(route) ==
  {JNull, JArr(<<>>), Unparsable} \cup
  (CASE route = "chat" -> ChatBodies
     [] route = "recommendations" -> RecommendationBodies
     [] route = "generate-message" -> MessageBodies)

\* what a rejected promise carries: an Error with a message, or a value
\* that is no Error
Thrown(isError, message) == [isError |-> isError, message |-> message]
ConfigurationMissing == Thrown(TRUE, "Azure OpenAI configuration is missing")
\* what the AI service rejects with
ServiceErrors ==
  {Thrown(TRUE, "rate limit exceeded for gpt-4o"),
   Thrown(TRUE, "authentication failed"),
   Thrown(TRUE, "socket hang up"),
   Thrown(FALSE, "rate limit")}

PostJson(status, data) ==
  [status |-> status, kind |-> "json", error |-> "", details |-> <<>>,
   data |-> data]
PostError(status, message, details) ==
  [status |-> status, kind |-> "json", error |-> message, details |-> details,
   data |-> Undef]
\* result.toTextStreamResponse()
StreamResponse ==
  [status |-> 200, kind |-> "stream", error |-> "", details |-> <<>>,
   data |-> Undef]

\* the catch block of the three handlers
Caught(route, thrown) ==
  IF thrown.isError /\ Includes(thrown.message, "Azure OpenAI configuration")
  THEN PostError(500, "AI service configuration error", <<>>)
  ELSE IF thrown.isError /\ Includes(thrown.message, "rate limit")
  THEN PostError(429, "AI service rate limit exceeded. Please try again later.",
                 <<>>)
  ELSE IF thrown.isError /\ Includes(thrown.message, "authentication")
  THEN PostError(401, "AI service authentication failed", <<>>)
  ELSE PostError(500, UnexpectedError(route), <<>>)

\* getAzureAI throws
AzureThrows(env) == ~env.apiKey \/ ~env.endpoint

\* one recommendation of the AI service's answer
RecOf(id, score) ==
  JObj([contactId |-> JStr(id), name |-> JStr("Ana Silva"),
        company |-> JStr("Acme"), position |-> JStr("CEO"),
        relevanceScore |-> JNum(score), reasons |-> JArr(<<>>),
        suggestedApproach |-> JStr(""), keyTopics |-> JArr(<<>>)])
RecSamples == {RecOf("c1", 30), RecOf("c1", 90), RecOf("c2", 90), RecOf("zz", 90)}
\* the summary as the AI service wrote it
AISummary ==
  JObj([totalContacts |-> JNum(99), recommendedContacts |-> JNum(99),
        primaryIndustries |-> JArr(<<>>), geographicRelevance |-> JStr("Brazil")])
\* objects generateObject resolves with under RecommendationSchema
RecommendationObjects ==
  {JObj([recommendations |-> JArr(a), summary |-> AISummary]) :
     a \in ArraysUpTo(RecSamples, MaxRecs)}
\* objects generateObject resolves with under MessageSchema
MessageObjects ==
  {JObj([subject |-> JStr("Hello"), message |-> JStr(m),
         alternatives |-> JArr(<<>>), tips |-> JArr(<<>>),
         followUpSuggestions |-> JArr(<<>>)]) :
     m \in {"", "Hi Ana", " Hi  Ana, long time"}}
\* new Date().toISOString()
IsoDates == {"2025-01-01T00:00:00.000Z", "2025-01-02T00:00:00.000Z"}

\* what the awaited AI call of a route resolves with
AIAnswers(route) ==
  CASE route = "chat" -> {[kind |-> "stream"]}
    [] route = "recommendations" ->
         {[kind |-> "object", object |-> o] : o \in RecommendationObjects}
    [] route = "generate-message" ->
         {[kind |-> "object", object |-> o] : o \in MessageObjects}
    [] OTHER -> {}

\* recs.filter(rec => contacts.some(contact => contact.id === rec.contactId))
RECURSIVE FilterKnown(_, _)
FilterKnown(recs, contactList) ==
  IF recs = <<>> THEN <<>>
  ELSE LET rest == FilterKnown(Tail(recs), contactList)
       IN  IF \E i \in 1..Len(contactList) :
                Get(contactList[i], "id") = Get(Head(recs), "contactId")
           THEN <<Head(recs)>> \o rest
           ELSE rest

\* rec placed into a list ordered by falling score, behind the entries of
\* its own score
RECURSIVE InsertByScore(_, _)
InsertByScore(rec, sorted) ==
  IF sorted = <<>> THEN <<rec>>
  ELSE IF Get(Head(sorted), "relevanceScore").n >= Get(rec, "relevanceScore").n
  THEN <<Head(sorted)>> \o InsertByScore(rec, Tail(sorted))
  ELSE <<rec>> \o sorted

\* the list left in the order the AI service gave
SortByScoreKeepOrder(recs) == recs

\* recs.sort((a, b) => b.relevanceScore - a.relevanceScore): a stable sort
RECURSIVE SortByScore(_)
SortByScore(recs) ==
  IF recs = <<>> THEN <<>>
  ELSE InsertByScore(recs[Len(recs)], SortByScore(SubSeq(recs, 1, Len(recs) - 1)))

\* the 200 body of the recommendations route for the validated request d
\* and the object the AI service returned
RecommendationsBody(d, object, at) ==
  LET contactList == Get(d, "contacts").a
      validRecommendations ==
        SortByScore(FilterKnown(Get(object, "recommendations").a, contactList))
      enhancedSummary ==
        Merge(Spread(Get(object, "summary")),
              [totalContacts |-> JNum(Len(contactList)),
               recommendedContacts |-> JNum(Len(validRecommendations))])
  IN  JObj([recommendations |-> JArr(validRecommendations),
            summary |-> JObj(enhancedSummary),
            metadata |->
              JObj([userGoal |-> Get(d, "userGoal"),
                    analysisDate |-> JStr(at),
                    requestedCount |-> Get(d, "maxRecommendations"),
                    actualCount |-> JNum(Len(validRecommendations))])])

\* message.split(/\s+/).length: one more than the runs of white space
SplitCount(str) ==
  1 + Cardinality({i \in 1..Len(str) :
                     /\ CharAt(str, i) \in WhiteSpace
                     /\ (i = 1 \/ CharAt(str, i - 1) \notin WhiteSpace)})

\* the 200 body of the generate-message route
MessageBody(d, object, at) ==
  LET contact == Get(d, "contact")
      message == Get(object, "message").s
  IN  JObj(Merge(Spread(object),
        [metadata |->
           JObj([contact |->
                   JObj([name |-> JStr(Get(contact, "firstName").s \o " "
                                       \o Get(contact, "lastName").s),
                         company |-> Get(contact, "company"),
                         position |-> Get(contact, "position")]),
                 messageType |-> Get(d, "messageType"),
                 tone |-> Get(d, "tone"),
                 userGoal |-> Get(d, "userGoal"),
                 generatedAt |-> JStr(at),
                 keyTopics |-> IF Truthy(Get(d, "keyTopics"))
                               THEN Get(d, "keyTopics") ELSE JArr(<<>>)]),
         analytics |->
           JObj([estimatedLength |-> JNum(Len(message)),
                 wordCount |-> JNum(SplitCount(message)),
                 readingTime |-> JNum((SplitCount(message) + 199) \div 200)])]))

\* the response a route builds from what its AI call resolved with
Answered(route, d, answer, at) ==
  CASE route = "chat" -> StreamResponse
    [] route = "recommendations" ->
         PostJson(200, RecommendationsBody(d, answer.object, at))
    [] route = "generate-message" ->
         PostJson(200, MessageBody(d, answer.object, at))

\* POST with getAzureAI called before the request is validated
POSTStartInitFirst(route, body) ==
  /\ postPc = "idle"
  /\ endpoint' = route
  /\ postBody' = body
  /\ UNCHANGED aiResult
  /\ IF body = Unparsable
     THEN /\ postResponse' = Caught(route, Thrown(TRUE, "Unexpected end of JSON input"))
          /\ postPc' = "done"
          /\ UNCHANGED <<postData, azureInits, aiCalls>>
     ELSE IF AzureThrows(azureEnv)
     THEN /\ azureInits' = azureInits + 1
          /\ postResponse' = Caught(route, ConfigurationMissing)
          /\ postPc' = "done"
          /\ UNCHANGED <<postData, aiCalls>>
     ELSE LET validation == Parse(RequestSchema(route), body)
          IN  IF validation.issues # <<>>
              THEN /\ azureInits' = azureInits + 1
                   /\ postResponse' = PostError(400, "Invalid request format",
                                                validation.issues)
                   /\ postPc' = "done"
                   /\ UNCHANGED <<postData, aiCalls>>
              ELSE /\ postData' = validation.value
                   /\ azureInits' = azureInits + 1
                   /\ aiCalls' = aiCalls + 1
                   /\ postPc' = "awaiting"
                   /\ UNCHANGED postResponse
  /\ UNCHANGED <<azureEnv, routeVars, csvVars, guardVars, pageVars, chatVars,
                 swrVars>>

\* POST of a route from request.json() to its first return or to the
\* awaited AI call: validation, then getAzureAI, then the call
POSTStart(route, body) ==
  /\ postPc = "idle"
  /\ endpoint' = route
  /\ postBody' = body
  /\ UNCHANGED aiResult
  /\ IF body = Unparsable
     THEN /\ postResponse' = Caught(route, Thrown(TRUE, "Unexpected end of JSON input"))
          /\ postPc' = "done"
          /\ UNCHANGED <<postData, azureInits, aiCalls>>
     ELSE LET validation == Parse(RequestSchema(route), body)
          IN  IF validation.issues # <<>>
              THEN /\ postResponse' = PostError(400, "Invalid request format",
                                                validation.issues)
                   /\ postPc' = "done"
                   /\ UNCHANGED <<postData, azureInits, aiCalls>>
              ELSE /\ postData' = validation.value
                   /\ azureInits' = azureInits + 1
                   /\ IF AzureThrows(azureEnv)
                      THEN /\ postResponse' = Caught(route, ConfigurationMissing)
                           /\ postPc' = "done"
                           /\ UNCHANGED aiCalls
                      ELSE /\ aiCalls' = aiCalls + 1
                           /\ postPc' = "awaiting"
                           /\ UNCHANGED postResponse
  /\ UNCHANGED <<azureEnv, routeVars, csvVars, guardVars, pageVars, chatVars,
                 swrVars>>

\* the awaited AI call resolves and the handler returns
AIResolves(answer, at) ==
  /\ postPc = "awaiting"
  /\ aiResult' = answer
  /\ postResponse' = Answered(endpoint, postData, answer, at)
  /\ postPc' = "done"
  /\ UNCHANGED <<azureEnv, endpoint, postBody, postData, azureInits, aiCalls,
                 routeVars, csvVars, guardVars, pageVars, chatVars, swrVars>>

\* the awaited AI call rejects and the catch block answers
AIRejects(thrown) ==
  /\ postPc = "awaiting"
  /\ aiResult' = [kind |-> "thrown", thrown |-> thrown]
  /\ postResponse' = Caught(endpoint, thrown)
  /\ postPc' = "done"
  /\ UNCHANGED <<azureEnv, endpoint, postBody, postData, azureInits, aiCalls,
                 routeVars, csvVars, guardVars, pageVars, chatVars, swrVars>>

\* the next request arrives at a fresh invocation of a handler
NextPOST ==
  /\ postPc = "done"
  /\ postPc' = "idle"
  /\ endpoint' = "none"
  /\ postBody' = Undef
  /\ postData' = Undef
  /\ azureInits' = 0
  /\ aiCalls' = 0
  /\ aiResult' = NoAIResult
  /\ postResponse' = NoPostResponse
  /\ UNCHANGED <<azureEnv, routeVars, csvVars, guardVars, pageVars, chatVars,
                 swrVars>>

InitAI ==
  /\ InitPOST /\ InitPage /\ InitChat /\ InitSWR
  /\ InitHandler /\ rapidApiKey /\ InitCSVHook /\ InitGuard

NextAI ==
  \/ \E route \in Endpoints : \E body \in BodiesOf(route) : POSTStart(route, body)
  \/ \E answer \in AIAnswers(endpoint) : \E at \in IsoDates :
       AIResolves(answer, at)
  \/ \E thrown \in ServiceErrors : AIRejects(thrown)
  \/ NextPOST

SpecAI == InitAI /\ [][NextAI]_vars

(***************************************************************************)
(* Properties of the AI routes                                             *)
(***************************************************************************)
\* C22: a chat request whose messages is the empty array is answered with
\* status 400 and an error in the body, as a request with an invalid role
\* is.
C22_EmptyMessagesRejected ==
  (postPc = "done" /\ endpoint = "chat"
     /\ Get(postBody, "messages") = JArr(<<>>)) =>
    /\ postResponse.status = 400
    /\ postResponse.error # ""

ContactKeys ==
  {"id", "firstName", "lastName", "company", "position", "url", "emailAddress",
   "connectedOn"}
\* v is an object lacking one of the fields a contact must have
LacksContactField(v) ==
  v.t = "obj" /\ \E k \in ContactKeys : Get(v, k) = Undef
\* v is a string of fewer than 10 characters
ShortGoal(v) == v.t = "str" /\ Len(v.s) < 10
\* body is one of the invalid requests of a route: a goal shorter than 10
\* characters, an empty contact list, a contact missing required fields, a
\* message with an invalid role
InvalidRequest(route, body) ==
  LET contactList == Get(body, "contacts")
      messageList == Get(body, "messages")
  IN  CASE route = "chat" ->
             \/ /\ messageList.t = "arr"
                /\ \E i \in 1..Len(messageList.a) :
                     Get(messageList.a[i], "role") \notin
                       {JStr("user"), JStr("assistant"), JStr("system")}
             \/ /\ contactList.t = "arr"
                /\ \E i \in 1..Len(contactList.a) :
                     LacksContactField(contactList.a[i])
        [] route = "recommendations" ->
             \/ ShortGoal(Get(body, "userGoal"))
             \/ contactList = JArr(<<>>)
             \/ /\ contactList.t = "arr"
                /\ \E i \in 1..Len(contactList.a) :
                     LacksContactField(contactList.a[i])
        [] route = "generate-message" ->
             \/ ShortGoal(Get(body, "userGoal"))
             \/ LacksContactField(Get(body, "contact"))
        [] OTHER -> FALSE

\* C23: in the three handlers the request is validated before the AI client
\* is initialised: once a handler has returned, an invalid request has got
\* status 400 with neither getAzureAI nor the AI service called, whatever
\* the Azure configuration; a request that passed validation with the
\* configuration incomplete has got 500 "AI service configuration error"
\* without a call of the AI service; and the AI service is only ever called
\* for a request that is not invalid.
C23_ValidationFirst ==
  /\ (postPc = "done" /\ InvalidRequest(endpoint, postBody)) =>
       /\ postResponse.status = 400
       /\ azureInits = 0
       /\ aiCalls = 0
  /\ (postPc = "done" /\ postData # Undef /\ AzureThrows(azureEnv)) =>
       /\ postResponse.status = 500
       /\ postResponse.error = "AI service configuration error"
       /\ aiCalls = 0
  /\ aiCalls > 0 =>
       /\ ~InvalidRequest(endpoint, postBody)
       /\ postData # Undef
       /\ ~AzureThrows(azureEnv)

\* with the endpoint of the configuration missing, a recommendations request
\* with a short goal was answered 400 and the client was never initialised
C23_Witness ==
  /\ postPc = "done"
  /\ endpoint = "recommendations"
  /\ azureEnv.apiKey /\ ~azureEnv.endpoint
  /\ Get(postBody, "userGoal") = JStr("Short")
  /\ Get(postBody, "contacts") = JArr(<<Contact1>>)
  /\ postResponse.status = 400
  /\ azureInits = 0

\* the ids of the contacts of a request body
RequestIds(body) ==
  {Get(Get(body, "contacts").a[i], "id") : i \in 1..Len(Get(body, "contacts").a)}

\* C24: in a 200 answer of the recommendations route, every
\* recommendation's contactId is the id of a contact of the request, the
\* list is in falling order of relevanceScore, summary.recommendedContacts
\* and metadata.actualCount are the length of the list, and
\* summary.totalContacts is the number of contacts of the request.
C24_RecommendationsConsistent ==
  (postPc = "done" /\ endpoint = "recommendations"
     /\ postResponse.status = 200) =>
    LET recs == Get(postResponse.data, "recommendations").a
        summary == Get(postResponse.data, "summary")
        metadata == Get(postResponse.data, "metadata")
    IN  /\ \A i \in 1..Len(recs) :
             Get(recs[i], "contactId") \in RequestIds(postBody)
        /\ \A i \in 1..(Len(recs) - 1) :
             Get(recs[i], "relevanceScore").n >= Get(recs[i + 1], "relevanceScore").n
        /\ Get(summary, "recommendedContacts") = JNum(Len(recs))
        /\ Get(metadata, "actualCount") = JNum(Len(recs))
        /\ Get(summary, "totalContacts") = JNum(Len(Get(postBody, "contacts").a))

\* the AI service answered with an unknown contact and a known one scored
\* below a later known one; the answer holds the two known ones reordered
C24_Witness ==
  /\ postPc = "done"
  /\ endpoint = "recommendations"
  /\ postResponse.status = 200
  /\ aiResult.kind = "object"
  /\ Get(aiResult.object, "recommendations") =
       JArr(<<RecOf("c1", 30), RecOf("zz", 90), RecOf("c2", 90)>>)
  /\ Get(postResponse.data, "recommendations") =
       JArr(<<RecOf("c2", 90), RecOf("c1", 30)>>)

\* C25: the recommendations route returns at most maxRecommendations
\* recommendations (metadata.actualCount <= metadata.requestedCount) and
\* recommends no contact twice.
C25_CountBounded ==
  (postPc = "done" /\ endpoint = "recommendations"
     /\ postResponse.status = 200) =>
    LET recs == Get(postResponse.data, "recommendations").a
        metadata == Get(postResponse.data, "metadata")
    IN  /\ Get(metadata, "actualCount").n <= Get(metadata, "requestedCount").n
        /\ \A i, j \in 1..Len(recs) :
             Get(recs[i], "contactId") = Get(recs[j], "contactId") => i = j

(***************************************************************************)
(* The chat hook: useChatAI                                                *)
(***************************************************************************)
\* fetch calls followed since the hook was mounted
MaxSubmits == 2
\* chunks read from one response body
MaxChunks == 1
\* the latest value Date.now() returns
MaxClock == 2
\* values the next Date.now() returns: the clock stands or advances by one
Nows(t) == {n \in {t, t + 1} : n >= 1 /\ n <= MaxClock}

\* values typed into the input
InputSamples == {"", "  ", " hi "}
\* chunks the response body delivers
ChunkSamples == {"He"}
\* the error property of a non-OK answer's JSON body: a message, an empty
\* one, none
ErrorBodySamples == {JStr("Invalid request format"), JStr(""), Undef}

Message(id, role, content) == [id |-> id, role |-> role, content |-> content]
Step(op, before) == [op |-> op, before |-> before]
\* one handleSubmit call in flight: the ids of its messages, where it
\* waits, the chunks it has read, and the list it started from
Flight(userId, before) ==
  [userId |-> userId, assistantId |-> "", phase |-> "fetching", chunks |-> 0,
   before |-> before]

RemoveAt(seq, i) == SubSeq(seq, 1, i - 1) \o SubSeq(seq, i + 1, Len(seq))
\* prev.filter(msg => msg.id !== id)
WithoutId(msgs, id) == SelectSeq(msgs, LAMBDA msg : msg.id # id)
\* prev.map(msg => msg.id === id ? {...msg, content: msg.content + chunk} : msg)
WithChunk(msgs, id, chunk) ==
  [j \in 1..Len(msgs) |->
     IF msgs[j].id = id
     THEN [msgs[j] EXCEPT !.content = msgs[j].content \o chunk]
     ELSE msgs[j]]

\* handleInputChange
handleInputChange(value) ==
  /\ value # input
  /\ input' = value
  /\ chatStep' = Step("input", <<>>)
  /\ UNCHANGED <<messages, isLoading, error, running, requests, clock,
                 routeVars, csvVars, guardVars, pageVars, aiVars, swrVars>>

\* handleSubmit without the isLoading test
handleSubmitNoLoadingTest(now) ==
  /\ clock' = IF trim(input) = "" THEN clock ELSE now
  /\ IF trim(input) = ""
     THEN /\ chatStep' = Step("ignored", messages)
          /\ UNCHANGED <<messages, input, isLoading, error, running, requests>>
     ELSE /\ requests < MaxSubmits
          /\ messages' = Append(messages, Message(Decimal(now), "user", trim(input)))
          /\ input' = ""
          /\ isLoading' = TRUE
          /\ error' = JNull
          /\ requests' = requests + 1
          /\ running' = Append(running, Flight(Decimal(now), messages))
          /\ chatStep' = Step("submitted", messages)
  /\ UNCHANGED <<routeVars, csvVars, guardVars, pageVars, aiVars, swrVars>>

\* handleSubmit up to its fetch: the submit event is handled with the state
\* of the latest render; Date.now() is read only past the guard
handleSubmit(now) ==
  /\ clock' = IF trim(input) = "" \/ isLoading THEN clock ELSE now
  /\ IF trim(input) = "" \/ isLoading
     THEN /\ chatStep' = Step("ignored", messages)
          /\ UNCHANGED <<messages, input, isLoading, error, running, requests>>
     ELSE /\ requests < MaxSubmits
          /\ messages' = Append(messages, Message(Decimal(now), "user", trim(input)))
          /\ input' = ""
          /\ isLoading' = TRUE
          /\ error' = JNull
          /\ requests' = requests + 1
          /\ running' = Append(running, Flight(Decimal(now), messages))
          /\ chatStep' = Step("submitted", messages)
  /\ UNCHANGED <<routeVars, csvVars, guardVars, pageVars, aiVars, swrVars>>

\* the catch and finally blocks of call i, entered with an error of the
\* given message
Fails(i, message) ==
  /\ error' = JStr(message)
  /\ messages' = WithoutId(messages, running[i].userId)
  /\ isLoading' = FALSE
  /\ running' = RemoveAt(running, i)
  /\ chatStep' = Step("failed", running[i].before)
  /\ UNCHANGED <<input, requests>>

\* fetch resolves with a non-OK response whose JSON body has the given error
\* property
RespondsNotOk(i, errorOfBody) ==
  /\ running[i].phase = "fetching"
  /\ Fails(i, IF Truthy(errorOfBody) THEN errorOfBody.s
              ELSE "Failed to get AI response")
  /\ UNCHANGED <<clock, routeVars, csvVars, guardVars, pageVars, aiVars, swrVars>>

\* fetch resolves with an OK response that has no body
RespondsWithoutBody(i) ==
  /\ running[i].phase = "fetching"
  /\ Fails(i, "No response body")
  /\ UNCHANGED <<clock, routeVars, csvVars, guardVars, pageVars, aiVars, swrVars>>

\* fetch rejects
FetchRejects(i) ==
  /\ running[i].phase = "fetching"
  /\ Fails(i, "Failed to fetch")
  /\ UNCHANGED <<clock, routeVars, csvVars, guardVars, pageVars, aiVars, swrVars>>

\* fetch resolves with an OK response that has a body: the empty assistant
\* message is added and the first read is awaited
RespondsOk(i, now) ==
  /\ running[i].phase = "fetching"
  /\ clock' = now
  /\ messages' = Append(messages, Message(Decimal(now + 1), "assistant", ""))
  /\ running' = [running EXCEPT ![i].phase = "streaming",
                                ![i].assistantId = Decimal(now + 1)]
  /\ chatStep' = Step("streaming", running[i].before)
  /\ UNCHANGED <<input, isLoading, error, requests,
                 routeVars, csvVars, guardVars, pageVars, aiVars, swrVars>>

\* reader.read() resolves with a chunk
ReadsChunk(i, chunk) ==
  /\ running[i].phase = "streaming"
  /\ running[i].chunks < MaxChunks
  /\ messages' = WithChunk(messages, running[i].assistantId, chunk)
  /\ running' = [running EXCEPT ![i].chunks = @ + 1]
  /\ chatStep' = Step("chunk", running[i].before)
  /\ UNCHANGED <<input, isLoading, error, requests, clock,
                 routeVars, csvVars, guardVars, pageVars, aiVars, swrVars>>

\* reader.read() resolves with done: the loop ends and finally runs
ReadsDone(i) ==
  /\ running[i].phase = "streaming"
  /\ isLoading' = FALSE
  /\ running' = RemoveAt(running, i)
  /\ chatStep' = Step("completed", running[i].before)
  /\ UNCHANGED <<messages, input, error, requests, clock,
                 routeVars, csvVars, guardVars, pageVars, aiVars, swrVars>>

\* reader.read() rejects
ReadRejects(i) ==
  /\ running[i].phase = "streaming"
  /\ Fails(i, "network error")
  /\ UNCHANGED <<clock, routeVars, csvVars, guardVars, pageVars, aiVars, swrVars>>

\* clearMessages
clearMessages ==
  /\ messages' = <<>>
  /\ error' = JNull
  /\ chatStep' = Step("cleared", <<>>)
  /\ UNCHANGED <<input, isLoading, running, requests, clock,
                 routeVars, csvVars, guardVars, pageVars, aiVars, swrVars>>

InitChatSpec ==
  /\ InitChat /\ InitPage /\ InitPOST /\ azureEnv = Configured /\ InitSWR
  /\ InitHandler /\ rapidApiKey /\ InitCSVHook /\ InitGuard

NextChat ==
  \/ \E value \in InputSamples : handleInputChange(value)
  \/ \E now \in Nows(clock) : handleSubmit(now)
  \/ \E i \in 1..Len(running) :
       \/ \E errorOfBody \in ErrorBodySamples : RespondsNotOk(i, errorOfBody)
       \/ RespondsWithoutBody(i)
       \/ FetchRejects(i)
       \/ \E now \in Nows(clock) : RespondsOk(i, now)
       \/ \E chunk \in ChunkSamples : ReadsChunk(i, chunk)
       \/ ReadsDone(i)
       \/ ReadRejects(i)
  \/ clearMessages

SpecChat == InitChatSpec /\ [][NextChat]_vars

(***************************************************************************)
(* Properties of the chat hook                                             *)
(***************************************************************************)
\* C26: when a submit has failed (a non-OK response, a missing body, or a
\* read error after streaming has started), the message list is the one the
\* submit started from, with neither the user message nor a partial
\* assistant message in it, and error is set.
C26_FailureRestores ==
  chatStep.op = "failed" =>
    /\ messages = chatStep.before
    /\ error # JNull

\* C27: at most one chat request is in flight; a handleSubmit call made
\* while isLoading is set or with blank input sends no request and leaves
\* messages, input and error as they are; a request is sent only by a call
\* made with isLoading unset and non-blank input; and when a call that sent
\* a request settles, on success or failure, isLoading is false.
C27_SingleFlight ==
  [][/\ Len(running') <= 1
     /\ (isLoading \/ trim(input) = "") =>
          /\ requests' = requests
          /\ Len(running') <= Len(running)
          /\ chatStep'.op = "ignored" =>
               UNCHANGED <<messages, input, error, isLoading, running>>
     /\ requests' # requests =>
          /\ requests' = requests + 1
          /\ Len(running') = Len(running) + 1
          /\ isLoading'
     /\ Len(running') < Len(running) =>
          /\ chatStep'.op \in {"completed", "failed"}
          /\ ~isLoading']_vars

\* with a request in flight the user typed a new message and submitted it:
\* the call was ignored
C27_Witness ==
  /\ chatStep.op = "ignored"
  /\ isLoading
  /\ input = " hi "
  /\ Len(running) = 1
  /\ requests = 1
  /\ Len(messages) >= 1

\* ---------------------------------------------------------------------------
\* The profile hook: useLinkedInProfiles
\* ---------------------------------------------------------------------------

MaxUrls == 3

ProfileUrlSamples ==
  {"https://www.linkedin.com/in/a", "http://linkedin.com/in/b",
   "linkedin.com/in/c"}

RECURSIVE ProfileUrlListsOf(_)
ProfileUrlListsOf(n) ==
  IF n = 0 THEN {<<>>}
  ELSE {<<>>} \cup {<<u>> \o rest : u \in ProfileUrlSamples, rest \in ProfileUrlListsOf(n - 1)}

ProfileUrlLists == ProfileUrlListsOf(MaxUrls)

\* Array.prototype.join
RECURSIVE join(_, _)
join(arr, sep) ==
  IF Len(arr) = 0 THEN ""
  ELSE IF Len(arr) = 1 THEN arr[1]
  ELSE arr[1] \o sep \o join(Tail(arr), sep)

\* String.prototype.split with a separator of one character: the pieces
\* between every two occurrences of the separator, [str] when it has none
split(str, sep) ==
  LET at == {i \in 1..Len(str) : CharAt(str, i) = sep}
      n == Cardinality(at)
      cut == [k \in 1..n |->
                CHOOSE i \in at : Cardinality({j \in at : j <= i}) = k]
  IN  [k \in 1..(n + 1) |->
         SubSeq(str, IF k = 1 THEN 1 ELSE cut[k - 1] + 1,
                     IF k = n + 1 THEN Len(str) ELSE cut[k] - 1)]

CombinedKey(urls) ==
  IF Len(urls) > 0 THEN JStr("linkedin-profiles:" \o join(urls, "|"))
  ELSE JNull

\* key.split(':')[1].split('|'); the key always holds the ':' of its prefix
KeyUrls(key) == split(split(key, ":")[2], "|")

\* the profile the API returns for a url stands for that url
ProfileOf(url) == JStr(url)

FetchReasons == {"Profile not found"}

Outcomes(n) == [1..n -> {"fulfilled"} \cup FetchReasons]

RECURSIVE FirstRejected(_, _)
FirstRejected(results, i) ==
  IF i > Len(results) THEN 0
  ELSE IF results[i] # "fulfilled" THEN i
  ELSE FirstRejected(results, i + 1)

hasData ==
  Truthy(swrData) /\ Len(swrData.a) = Len(linkedinUrls)

\* the component renders with a list of urls; SWR drops to the state of the
\* new key when the key changed
useLinkedInProfiles(urls) ==
  /\ linkedinUrls' = urls
  /\ combinedKey' = CombinedKey(urls)
  /\ IF swrPc # "unmounted" /\ combinedKey' = combinedKey
     THEN UNCHANGED <<swrPc, fetcherUrls, swrData, swrError>>
     ELSE /\ swrPc' = IF combinedKey' = JNull THEN "idle" ELSE "keyed"
          /\ fetcherUrls' = <<>>
          /\ swrData' = Undef
          /\ swrError' = Undef
  /\ UNCHANGED <<routeVars, csvVars, guardVars, pageVars, aiVars, chatVars>>

\* SWR calls the fetcher with the key: first load, retry or refetchAll
multiProfileFetcher ==
  /\ swrPc \in {"keyed", "settled"}
  /\ fetcherUrls' = KeyUrls(combinedKey.s)
  /\ swrPc' = "fetching"
  /\ UNCHANGED <<linkedinUrls, combinedKey, swrData, swrError>>
  /\ UNCHANGED <<routeVars, csvVars, guardVars, pageVars, aiVars, chatVars>>

\* Promise.allSettled resolves; results.map throws at the first rejected one
FetchesSettle(results) ==
  /\ swrPc = "fetching"
  /\ LET k == FirstRejected(results, 1)
     IN  IF k = 0
         THEN /\ swrData' = JArr([i \in 1..Len(fetcherUrls) |->
                                    ProfileOf(fetcherUrls[i])])
              /\ swrError' = Undef
         ELSE /\ swrError' = JStr("Failed to fetch profile for URL "
                                  \o fetcherUrls[k] \o ": " \o results[k])
              /\ UNCHANGED swrData
  /\ swrPc' = "settled"
  /\ UNCHANGED <<linkedinUrls, combinedKey, fetcherUrls>>
  /\ UNCHANGED <<routeVars, csvVars, guardVars, pageVars, aiVars, chatVars>>

\* mutate(undefined, false)
resetAll ==
  /\ swrPc = "settled"
  /\ swrData' = Undef
  /\ UNCHANGED <<swrPc, linkedinUrls, combinedKey, fetcherUrls, swrError>>
  /\ UNCHANGED <<routeVars, csvVars, guardVars, pageVars, aiVars, chatVars>>

InitSWRSpec ==
  /\ InitSWR /\ InitPage /\ InitPOST /\ azureEnv = Configured /\ InitChat
  /\ InitHandler /\ rapidApiKey /\ InitCSVHook /\ InitGuard

NextSWR ==
  \/ \E urls \in ProfileUrlLists : useLinkedInProfiles(urls)
  \/ multiProfileFetcher
  \/ \E results \in Outcomes(Len(fetcherUrls)) : FetchesSettle(results)
  \/ resetAll

SpecSWR == InitSWRSpec /\ [][NextSWR]_vars

\* ---------------------------------------------------------------------------
\* Properties of the profile hook
\* ---------------------------------------------------------------------------

\* C28: the urls the fetcher recovers from the combined key are the urls the
\* hook was given, in the same order, and hasData is true only with one
\* profile per given url.
C28_FetchesGivenUrls ==
  /\ swrPc \in {"fetching", "settled"} => fetcherUrls = linkedinUrls
  /\ hasData =>
       swrData.a = [i \in 1..Len(linkedinUrls) |-> ProfileOf(linkedinUrls[i])]
====
